---- MODULE Spec2Model ----
(***************************************************************************)
(* Model of the Perplexity -> OpenAI translation layer:                    *)
(*   ChunkAggregator / StreamingState   (src/src/models/perplexity_models) *)
(*   PerplexitySSEParser                (src/src/services/sse_parser)      *)
(*   ChunkExtractor                     (src/src/services/chunk_extractor) *)
(*   PerplexityAdapter                  (src/src/services/perplexity_adapter)*)
(*   StreamFormatter                    (src/src/services/stream_formatter)*)
(*   ChatCompletionService              (src/src/services/chat_completion_service)*)
(*   PerplexityClient.ask, ask_stream   (src/perplexity_client)            *)
(*   perplexity_ask                     (src/mcp_service)                  *)
(*                                                                         *)
(* A Python str is a tuple of one-character strings, so that startswith,   *)
(* endswith, `in`, join and sorted() are computed on the characters.  A    *)
(* JSON value is a record tagged by its type in field t.  A JSON object is *)
(* a function from key names to JSON values; a key that is absent from the *)
(* object is absent from the function's domain.                            *)
(***************************************************************************)
EXTENDS Integers, Sequences, FiniteSets, TLC

VARIABLES
    \* one ChunkAggregator driven directly through apply_patch
    agg,          \* [chunks, is_complete]
    lastPatch,    \* the JSONPatch of the last apply_patch call
    lastRet,      \* what that call returned (JNull is Python's None)
    aggRaised,    \* that call raised instead of returning
    returned,     \* concatenation of every fragment apply_patch returned
    expected,     \* concatenation of the str values of the patches applied
    onlyAdds,     \* every patch applied so far is add /chunks/<index> with a str value
    nPatches,
    aggText,      \* what get_full_text() returned, None once a patch has been applied since
    \* one ChunkExtractor (StreamingState + parser) driven through process_event
    state,        \* [model, text_completed, aggregators]
    lastEvent,    \* the raw event of the last process_event call
    lastYield,    \* the fragments that call yielded, in order
    raised,       \* that call raised out of its generator
    prevState,    \* the session as it was before that call
    nEvents,
    fullText,     \* what get_full_text() returned, None once an event has been processed since
    \* PerplexityAdapter.stream's chunk_generator
    streamPc,     \* "idle" | "streaming" | "failed" | "done"
    streamOut,    \* the fragments chunk_generator has produced, in order
    \* one StreamFormatter
    has_sent_role,
    output,       \* every frame returned so far, in order
    lastCall,     \* name of the last formatter method called
    lastFrames,   \* the frames that call returned
    nCalls,
    \* PerplexityAdapter.format_messages_as_query
    messages,     \* the message list format_messages_as_query is called with
    query,        \* the str that call returned, None until it has
    \* one inbound call: POST /v1/chat/completions or the MCP tool perplexity_ask
    request,      \* the call's arguments, None until it arrives
    pc,           \* "idle" | "started" | "role_sent" | "streaming" | "ended"
    exit,         \* how the call ended: "none" | "normal" | "upstream_failure" | "exception" | "abort"
    posts,        \* the requests posted upstream: [caller, payload], in order
    connection,   \* the upstream response of ask_stream: "none" | "open" | "closed"
    reply,        \* what the caller got: [status_code, media_type, content]
    model_name,   \* the second element complete() or stream() returned
    \* one upstream body, read by the non-streaming and by the streaming path
    body,         \* the events ask_stream yields for it, in order
    askResult,    \* what complete() got from ask for it, None until it has
    \* the REST routes behind their dependencies
    api_key,      \* config.api_key, "" when the environment sets none
    headers,      \* the headers of the request, None until it arrives
    \* the lazily made upstream clients of one process
    _perplexity_client,  \* the global of src/api/dependencies.py: 0 is None, n the n-th instance
    _client,             \* the global of mcp_service.py, likewise
    instances,    \* how many times PerplexityClient() has been called
    inFlight,     \* per call in flight: [pc, client], client the instance it works with
    \* streaming requests in flight, in order of arrival
    streams       \* per request: [pc, alias, model, has_sent_role, state, events, fragments]

aggVars == <<agg, lastPatch, lastRet, aggRaised, returned, expected, onlyAdds, nPatches, aggText>>
extVars == <<state, lastEvent, lastYield, raised, prevState, nEvents, fullText>>
strVars == <<streamPc, streamOut>>
fmtVars == <<has_sent_role, output, lastCall, lastFrames, nCalls>>
qryVars == <<messages, query>>
srvVars == <<request, pc, exit, posts, connection, reply, model_name>>
pathVars == <<body, askResult>>
authVars == <<api_key, headers>>
clientVars == <<_perplexity_client, _client, instances, inFlight>>
sessVars == <<streams>>
\* what a call through the service leaves alone
farVars == <<qryVars, pathVars, clientVars, sessVars>>
reqVars == <<qryVars, srvVars, pathVars, authVars, clientVars, sessVars>>
vars == <<aggVars, extVars, strVars, fmtVars, reqVars>>

-----------------------------------------------------------------------------
(* Bounds *)

MaxPatches == 3
MaxEvents == 3
MaxCalls == 4
MaxMessages == 3
MaxBody == 3

-----------------------------------------------------------------------------
(* JSON values and Python strings *)

JNull == [t |-> "null"]
JStr(s) == [t |-> "str", s |-> s]
JInt(n) == [t |-> "int", n |-> n]
JBool(b) == [t |-> "bool", b |-> b]
JList(items) == [t |-> "list", items |-> items]
JDict(f) == [t |-> "dict", f |-> f]

EmptyObject == [k \in {} |-> JNull]

\* dict.get(key, default)
Get(d, key, default) == IF key \in DOMAIN d.f THEN d.f[key] ELSE default

\* variant: a test for None only (`is not None`)
TruthyNotNone(v) == v.t # "null"

\* Python truthiness of a JSON-derived value
Truthy(v) ==
    CASE v.t = "null" -> FALSE
      [] v.t = "str"  -> v.s # <<>>
      [] v.t = "int"  -> v.n # 0
      [] v.t = "bool" -> v.b
      [] v.t = "list" -> v.items # <<>>
      [] v.t = "dict" -> DOMAIN v.f # {}

Digit == <<"0", "1", "2", "3", "4", "5", "6", "7", "8", "9">>

RECURSIVE Decimal(_)
Decimal(n) == IF n < 10 THEN <<Digit[n + 1]>> ELSE Decimal(n \div 10) \o <<Digit[(n % 10) + 1]>>

\* str(v) for the scalar values a patch carries
PyStr(v) ==
    CASE v.t = "str"  -> v.s
      [] v.t = "null" -> <<"N", "o", "n", "e">>
      [] v.t = "bool" -> IF v.b THEN <<"T", "r", "u", "e">> ELSE <<"F", "a", "l", "s", "e">>
      [] v.t = "int"  -> IF v.n < 0 THEN <<"-">> \o Decimal(0 - v.n) ELSE Decimal(v.n)

StartsWith(s, p) == Len(s) >= Len(p) /\ SubSeq(s, 1, Len(p)) = p
EndsWith(s, p) == Len(s) >= Len(p) /\ SubSeq(s, Len(s) - Len(p) + 1, Len(s)) = p
\* p in s
Contains(s, p) == \E i \in 1..(Len(s) - Len(p) + 1) : SubSeq(s, i, i + Len(p) - 1) = p

RECURSIVE Join(_)
\* "".join(seq of str)
Join(ss) == IF ss = <<>> THEN <<>> ELSE Head(ss) \o Join(Tail(ss))

-----------------------------------------------------------------------------
(* String constants of the source *)

ADD == <<"a", "d", "d">>
REPLACE == <<"r", "e", "p", "l", "a", "c", "e">>
REMOVE == <<"r", "e", "m", "o", "v", "e">>
CHUNKS_SEGMENT == <<"/", "c", "h", "u", "n", "k", "s", "/">>
PROGRESS_PATH == <<"/", "p", "r", "o", "g", "r", "e", "s", "s">>
ROOT_PATH == <<>>
DONE == <<"D", "O", "N", "E">>

-----------------------------------------------------------------------------
(* JSON Patch path helpers *)

AllDigits(s) == \A i \in 1..Len(s) : \E d \in 1..10 : Digit[d] = s[i]

RECURSIVE ParseInt(_)
\* int(s) for a non-empty string of digits
ParseInt(s) ==
    IF Len(s) = 1 THEN (CHOOSE d \in 1..10 : Digit[d] = s[1]) - 1
    ELSE 10 * ParseInt(SubSeq(s, 1, Len(s) - 1)) + ParseInt(<<s[Len(s)]>>)

\* the text after the last "/" of a path that contains one
LastSegment(path) ==
    LET k == CHOOSE i \in 1..Len(path) :
                 path[i] = "/" /\ \A j \in (i + 1)..Len(path) : path[j] # "/"
    IN SubSeq(path, k + 1, Len(path))

\* -1 stands for None
extract_chunk_index(path) ==
    IF ~StartsWith(path, CHUNKS_SEGMENT) THEN -1
    ELSE LET last == LastSegment(path)
         IN IF last # <<>> /\ AllDigits(last) THEN ParseInt(last) ELSE -1

\* op == "add" and path.startswith("/chunks/")
is_chunk_add(op, path) == op = ADD /\ StartsWith(path, CHUNKS_SEGMENT)

-----------------------------------------------------------------------------
(* ChunkAggregator *)

NewAggregator == [chunks |-> <<>>, is_complete |-> FALSE]

\* the outcome of one apply_patch call: the aggregator's fields afterwards,
\* the value returned, and whether the call raised instead of returning
Outcome(chunks, is_complete, ret, exc) ==
    [chunks |-> chunks, is_complete |-> is_complete, ret |-> ret, raised |-> exc]

\* for chunk in initial_chunks: self.chunks.append(str(chunk));
\* return "".join(initial_chunks) if initial_chunks else None
AppendInitialChunks(self, initial_chunks) ==
    CASE initial_chunks.t = "list" ->
            LET n == Len(initial_chunks.items)
                appended == self.chunks \o [i \in 1..n |-> PyStr(initial_chunks.items[i])]
                allStr == \A i \in 1..n : initial_chunks.items[i].t = "str"
            IN IF n = 0 THEN Outcome(self.chunks, self.is_complete, JNull, FALSE)
               ELSE IF allStr
                    THEN Outcome(appended, self.is_complete,
                                 JStr(Join([i \in 1..n |-> initial_chunks.items[i].s])), FALSE)
                    ELSE Outcome(appended, self.is_complete, JNull, TRUE)   \* join: TypeError
      [] initial_chunks.t = "str" ->
            LET n == Len(initial_chunks.s)
                appended == self.chunks \o [i \in 1..n |-> <<initial_chunks.s[i]>>]
            IN IF n = 0 THEN Outcome(self.chunks, self.is_complete, JNull, FALSE)
               ELSE Outcome(appended, self.is_complete, JStr(initial_chunks.s), FALSE)
      [] OTHER ->   \* None, int, bool: not iterable, TypeError before any append
            Outcome(self.chunks, self.is_complete, JNull, TRUE)

\* variant: the fragment is inserted at the index the path carries
StoreChunkAtIndex(chunks, path, chunk_text) ==
    LET index == extract_chunk_index(path)
    IN IF index >= 0 /\ index < Len(chunks)
       THEN SubSeq(chunks, 1, index) \o <<chunk_text>> \o SubSeq(chunks, index + 1, Len(chunks))
       ELSE Append(chunks, chunk_text)

\* self.chunks.append(chunk_text): the index in the path is not consulted
StoreChunk(chunks, path, chunk_text) == Append(chunks, chunk_text)

\* the add branch
add_chunk(self, patch) ==
    LET chunk_text == IF patch.value # JNull THEN PyStr(patch.value) ELSE <<>>
    IN Outcome(StoreChunk(self.chunks, patch.path, chunk_text), self.is_complete,
               JStr(chunk_text), FALSE)

\* variant: the flag is assigned from every /progress value
apply_replace_assign(self, patch) ==
    IF patch.path = PROGRESS_PATH
    THEN Outcome(self.chunks, patch.value = JStr(DONE), JNull, FALSE)
    ELSE IF patch.path = ROOT_PATH /\ patch.value.t = "dict"
         THEN AppendInitialChunks(self, Get(patch.value, "chunks", JList(<<>>)))
         ELSE Outcome(self.chunks, self.is_complete, JNull, FALSE)

\* the replace branch
apply_replace(self, patch) ==
    IF patch.path = PROGRESS_PATH /\ patch.value = JStr(DONE)
    THEN Outcome(self.chunks, TRUE, JNull, FALSE)
    ELSE IF patch.path = ROOT_PATH /\ patch.value.t = "dict"
         THEN AppendInitialChunks(self, Get(patch.value, "chunks", JList(<<>>)))
         ELSE Outcome(self.chunks, self.is_complete, JNull, FALSE)

\* variant: remove takes the last fragment away
apply_patch_remove_pops(self, patch) ==
    IF patch.op = ADD /\ Contains(patch.path, CHUNKS_SEGMENT)
    THEN add_chunk(self, patch)
    ELSE IF patch.op = REPLACE
         THEN apply_replace(self, patch)
         ELSE Outcome(SubSeq(self.chunks, 1, Len(self.chunks) - 1), self.is_complete, JNull, FALSE)

apply_patch(self, patch) ==
    IF patch.op = ADD /\ Contains(patch.path, CHUNKS_SEGMENT)
    THEN add_chunk(self, patch)
    ELSE IF patch.op = REPLACE
         THEN apply_replace(self, patch)
         ELSE Outcome(self.chunks, self.is_complete, JNull, FALSE)

get_full_text(self) == Join(self.chunks)


-----------------------------------------------------------------------------
(* The patches applied directly to one aggregator *)

Patch(op, path, value) == [op |-> op, path |-> path, value |-> value]
ChunkPath(i) == CHUNKS_SEGMENT \o Decimal(i)
NESTED_PATH == <<"/", "x">> \o ChunkPath(0)
HEL == <<"H", "e", "l">>
LO == <<"l", "o">>

InitialChunks(chunks) == JDict([chunks |-> chunks])

AggPatches ==
    {Patch(ADD, ChunkPath(i), v) :
        i \in {0, 1}, v \in {JStr(HEL), JStr(LO), JStr(<<>>), JNull, JInt(5)}}
    \cup {Patch(ADD, NESTED_PATH, JStr(HEL)), Patch(ADD, PROGRESS_PATH, JStr(HEL))}
    \cup {Patch(REPLACE, PROGRESS_PATH, v) : v \in {JStr(DONE), JStr(LO), JNull}}
    \cup {Patch(REPLACE, ROOT_PATH, v) :
            v \in {InitialChunks(JList(<<JStr(HEL), JStr(LO)>>)),
                   InitialChunks(JList(<<>>)),
                   InitialChunks(JList(<<JInt(1)>>)),
                   InitialChunks(JStr(LO)),
                   InitialChunks(JNull),
                   JDict(EmptyObject),
                   JStr(DONE)}}
    \cup {Patch(REPLACE, ChunkPath(0), JStr(HEL))}
    \cup {Patch(REMOVE, ChunkPath(0), JNull), Patch(REMOVE, PROGRESS_PATH, JStr(DONE)),
          Patch(REMOVE, ROOT_PATH, JNull)}

NoPatch == Patch(<<>>, <<>>, JNull)

\* a path of the chunk-array form /chunks/<index>
IsChunkIndexPath(path) == extract_chunk_index(path) >= 0

\* apply_patch ended as r
Applied(r) ==
    /\ agg' = [chunks |-> r.chunks, is_complete |-> r.is_complete]
    /\ lastRet' = r.ret
    /\ aggRaised' = r.raised
    /\ returned' = IF r.ret.t = "str" THEN returned \o r.ret.s ELSE returned

ApplyPatch ==
    /\ nPatches < MaxPatches
    /\ \E patch \in AggPatches :
             /\ Applied(apply_patch(agg, patch))
             /\ lastPatch' = patch
             /\ expected' = IF patch.value.t = "str" THEN expected \o patch.value.s ELSE expected
             /\ onlyAdds' = (/\ onlyAdds
                             /\ patch.op = ADD
                             /\ IsChunkIndexPath(patch.path)
                             /\ patch.value.t = "str")
             /\ nPatches' = nPatches + 1
    /\ aggText' = JNull
    /\ UNCHANGED <<reqVars, extVars, strVars, fmtVars>>

\* variant: reading the text takes the fragments out of the aggregator
AggGetFullTextDrains ==
    /\ aggText' = JStr(get_full_text(agg))
    /\ agg' = [agg EXCEPT !.chunks = <<>>]
    /\ UNCHANGED <<reqVars, lastPatch, lastRet, aggRaised, returned, expected, onlyAdds, nPatches,
                   extVars, strVars, fmtVars>>

\* one call of ChunkAggregator.get_full_text()
AggGetFullText ==
    /\ aggText' = JStr(get_full_text(agg))
    /\ UNCHANGED <<reqVars, agg, lastPatch, lastRet, aggRaised, returned, expected, onlyAdds, nPatches,
                   extVars, strVars, fmtVars>>

-----------------------------------------------------------------------------
(* pydantic validation of the model fields (lax mode) *)

IsStr(v) == v.t = "str"
IsOptionalStr(v) == v.t \in {"null", "str"}

\* the strings a bool field accepts
BoolTrueStrings ==
    {<<"1">>, <<"o", "n">>, <<"t">>, <<"t", "r", "u", "e">>, <<"y">>, <<"y", "e", "s">>}
BoolFalseStrings ==
    {<<"0">>, <<"o", "f", "f">>, <<"f">>, <<"f", "a", "l", "s", "e">>, <<"n">>, <<"n", "o">>}

IsBool(v) ==
    CASE v.t = "bool" -> TRUE
      [] v.t = "int"  -> v.n \in {0, 1}
      [] v.t = "str"  -> v.s \in BoolTrueStrings \cup BoolFalseStrings
      [] OTHER        -> FALSE

AsBool(v) ==
    CASE v.t = "bool" -> v.b
      [] v.t = "int"  -> v.n = 1
      [] v.t = "str"  -> v.s \in BoolTrueStrings

IsInt(v) ==
    CASE v.t = "int"  -> TRUE
      [] v.t = "bool" -> TRUE
      [] v.t = "str"  -> v.s # <<>> /\ AllDigits(v.s)
      [] OTHER        -> FALSE

STREAMING == <<"S", "T", "R", "E", "A", "M", "I", "N", "G">>
IN_PROGRESS == <<"I", "N", "_", "P", "R", "O", "G", "R", "E", "S", "S">>

\* JSONPatch: op: Literal["add", "replace", "remove"], path: str, value: Optional[Any]
ValidJSONPatch(op, path, value) == IsStr(op) /\ op.s \in {ADD, REPLACE, REMOVE} /\ IsStr(path)

\* MarkdownBlock, built from a dict
ValidMarkdownBlock(v) ==
    /\ v.t = "dict"
    /\ LET progress == Get(v, "progress", JStr(IN_PROGRESS))
           chunks == Get(v, "chunks", JList(<<>>))
           answer == Get(v, "answer", JNull)
           media_items == Get(v, "media_items", JNull)
       IN /\ IsStr(progress) /\ progress.s \in {IN_PROGRESS, DONE}
          /\ chunks.t = "list" /\ \A i \in 1..Len(chunks.items) : IsStr(chunks.items[i])
          /\ IsInt(Get(v, "chunk_starting_offset", JInt(0)))
          /\ IsOptionalStr(answer)
          /\ media_items.t \in {"null", "list"}
          /\ Get(v, "inline_token_annotations", JList(<<>>)).t = "list"

\* PerplexityBlock: intended_usage: str, plan_block: Optional[dict[str, Any]],
\* markdown_block: Optional[MarkdownBlock] (diff_block is already a DiffBlock or None)
ValidPerplexityBlock(intended_usage, plan_block, markdown_block) ==
    /\ IsStr(intended_usage)
    /\ plan_block.t \in {"null", "dict"}
    /\ markdown_block.t = "null" \/ ValidMarkdownBlock(markdown_block)

-----------------------------------------------------------------------------
(* PerplexitySSEParser *)

None == [ok |-> FALSE]
NoDiffBlock == [present |-> FALSE, field |-> <<>>, patches |-> <<>>]

\* the elements a Python for loop draws from a JSON value; iterating None, a
\* number or a bool raises TypeError; the elements of a str are its characters
\* and those of a dict its keys, all of them str
Iterable(v) == v.t \in {"list", "str", "dict"}
Elements(v) ==
    CASE v.t = "list" -> v.items
      [] v.t = "str"  -> [i \in 1..Len(v.s) |-> JStr(<<v.s[i]>>)]
      [] v.t = "dict" -> [i \in 1..Cardinality(DOMAIN v.f) |-> JStr(<<"k">>)]

\* the diff_block branch of _parse_block: ok is FALSE where the code raises
parse_diff_block(diff_data) ==
    IF diff_data.t # "dict" THEN None
    ELSE LET raw == Get(diff_data, "patches", JList(<<>>))
             field == Get(diff_data, "field", JStr(<<>>))
         IN IF ~Iterable(raw) THEN None
            ELSE LET items == Elements(raw)
                     op(i) == Get(items[i], "op", JStr(REPLACE))
                     path(i) == Get(items[i], "path", JStr(<<>>))
                     value(i) == Get(items[i], "value", JNull)
                     good(i) == /\ items[i].t = "dict"
                                /\ ValidJSONPatch(op(i), path(i), value(i))
                 IN IF (\A i \in 1..Len(items) : good(i)) /\ IsStr(field)
                    THEN [ok |-> TRUE,
                          diff_block |-> [present |-> TRUE, field |-> field.s,
                                          patches |-> [i \in 1..Len(items) |->
                                                         Patch(op(i).s, path(i).s, value(i))]]]
                    ELSE None

\* the PerplexityBlock built once the diff_block branch has run as `diff`
build_block(block_data, diff) ==
    LET intended_usage == Get(block_data, "intended_usage", JStr(<<>>))
        plan_block == Get(block_data, "plan_block", JNull)
        markdown_block == Get(block_data, "markdown_block", JNull)
    IN IF ~diff.ok THEN None
       ELSE IF ~ValidPerplexityBlock(intended_usage, plan_block, markdown_block) THEN None
       ELSE [ok |-> TRUE,
             block |-> [intended_usage |-> intended_usage.s,
                        diff_block |-> diff.diff_block,
                        plan_block |-> plan_block,
                        markdown_block |-> markdown_block]]

parse_block(block_data) ==
    IF block_data.t # "dict" THEN None
    ELSE IF ~Truthy(Get(block_data, "intended_usage", JStr(<<>>))) THEN None
    ELSE IF "diff_block" \in DOMAIN block_data.f
         THEN build_block(block_data, parse_diff_block(block_data.f["diff_block"]))
         ELSE build_block(block_data, [ok |-> TRUE, diff_block |-> NoDiffBlock])

\* if block: blocks.append(block)
append_if_block(parsed) == IF parsed.ok THEN <<parsed.block>> ELSE <<>>

\* variant: the first block that fails to parse ends the loop over the blocks
parse_blocks_until_malformed(items) ==
    LET bad == {i \in 1..Len(items) : ~parse_block(items[i]).ok}
        n == IF bad = {} THEN Len(items)
             ELSE (CHOOSE i \in bad : \A j \in bad : i <= j) - 1
    IN [i \in 1..n |-> parse_block(items[i]).block]

RECURSIVE parse_blocks(_)
\* for block_data in ...: block = _parse_block(block_data); if block: blocks.append(block)
parse_blocks(items) ==
    IF items = <<>> THEN <<>>
    ELSE append_if_block(parse_block(Head(items))) \o parse_blocks(Tail(items))

parse_event_data(data) ==
    IF data.t # "dict" THEN None
    ELSE LET raw == Get(data, "blocks", JList(<<>>))
             display_model == Get(data, "display_model", JStr(<<>>))
             text_completed == Get(data, "text_completed", JBool(FALSE))
         IN IF ~Iterable(raw) THEN None
            ELSE IF /\ IsStr(Get(data, "backend_uuid", JStr(<<>>)))
                    /\ IsStr(Get(data, "uuid", JStr(<<>>)))
                    /\ IsStr(display_model)
                    /\ IsStr(Get(data, "mode", JStr(<<>>)))
                    /\ IsStr(Get(data, "search_focus", JStr(<<>>)))
                    /\ IsBool(text_completed)
                    /\ IsStr(Get(data, "message_mode", JStr(STREAMING)))
                    /\ IsOptionalStr(Get(data, "thread_url_slug", JNull))
                 THEN [ok |-> TRUE,
                       event |-> [display_model |-> display_model.s,
                                  text_completed |-> AsBool(text_completed),
                                  blocks |-> parse_blocks(Elements(raw))]]
                 ELSE None

ASK_TEXT_MARKDOWN ==
    <<"a", "s", "k", "_", "t", "e", "x", "t", "_", "m", "a", "r", "k", "d", "o", "w", "n">>
ASK_TEXT_PREFIX == <<"a", "s", "k", "_", "t", "e", "x", "t", "_">>
MARKDOWN_SUFFIX == <<"_", "m", "a", "r", "k", "d", "o", "w", "n">>

is_markdown_block(intended_usage) ==
    IF intended_usage = <<>> THEN FALSE
    ELSE IF intended_usage = ASK_TEXT_MARKDOWN THEN TRUE
    ELSE IF StartsWith(intended_usage, ASK_TEXT_PREFIX) /\ EndsWith(intended_usage, MARKDOWN_SUFFIX)
         THEN TRUE
         ELSE FALSE

iter_markdown_blocks(event) ==
    SelectSeq(event.blocks, LAMBDA block : is_markdown_block(block.intended_usage))

-----------------------------------------------------------------------------
(* StreamingState *)

NoAggregators == [k \in {} |-> NewAggregator]
NewStreamingState == [model |-> <<>>, text_completed |-> FALSE, aggregators |-> NoAggregators]

\* variant: every call installs a new aggregator under the tag
get_or_create_aggregator_fresh(aggregators, intended_usage) ==
    [key \in DOMAIN aggregators \cup {intended_usage} |->
        IF key = intended_usage THEN NewAggregator ELSE aggregators[key]]

\* the aggregators dict after get_or_create_aggregator(intended_usage)
get_or_create_aggregator(aggregators, intended_usage) ==
    IF intended_usage \notin DOMAIN aggregators
    THEN (intended_usage :> NewAggregator) @@ aggregators
    ELSE aggregators

\* code points of the characters that occur in usage tags
Lower == <<"a", "b", "c", "d", "e", "f", "g", "h", "i", "j", "k", "l", "m",
           "n", "o", "p", "q", "r", "s", "t", "u", "v", "w", "x", "y", "z">>
CodePoint(c) ==
    IF \E i \in 1..10 : Digit[i] = c THEN 47 + (CHOOSE i \in 1..10 : Digit[i] = c)
    ELSE IF c = "_" THEN 95
    ELSE 96 + (CHOOSE i \in 1..26 : Lower[i] = c)

\* a < b for Python str
StrLess(a, b) ==
    LET shorter == IF Len(a) < Len(b) THEN Len(a) ELSE Len(b)
        differ == {i \in 1..shorter : a[i] # b[i]}
        first == CHOOSE i \in differ : \A j \in differ : i <= j
    IN IF differ = {} THEN Len(a) < Len(b)
       ELSE CodePoint(a[first]) < CodePoint(b[first])

RECURSIVE sorted_by_length(_)
\* variant: shorter keys first, so that section 1 precedes section 10
sorted_by_length(keys) ==
    IF keys = {} THEN <<>>
    ELSE LET least == CHOOSE k \in keys : \A other \in keys \ {k} :
                          Len(k) < Len(other) \/ (Len(k) = Len(other) /\ StrLess(k, other))
         IN <<least>> \o sorted_by_length(keys \ {least})

RECURSIVE sorted(_)
\* sorted(keys)
sorted(keys) ==
    IF keys = {} THEN <<>>
    ELSE LET least == CHOOSE k \in keys : \A other \in keys \ {k} : StrLess(k, other)
         IN <<least>> \o sorted(keys \ {least})

get_all_text(self) ==
    LET keys == sorted(DOMAIN self.aggregators)
    IN Join([i \in 1..Len(keys) |-> get_full_text(self.aggregators[keys[i]])])

\* variant: a session without aggregators is not complete
is_all_complete_some(self) ==
    \/ self.text_completed
    \/ /\ DOMAIN self.aggregators # {}
       /\ \A key \in DOMAIN self.aggregators : self.aggregators[key].is_complete

is_all_complete(self) ==
    self.text_completed \/ \A key \in DOMAIN self.aggregators : self.aggregators[key].is_complete

-----------------------------------------------------------------------------
(* ChunkExtractor *)

\* what a generator did when run to its end: the session afterwards, the
\* values it yielded in order, and whether it ended by raising
Ran(self, yielded, exc) == [state |-> self, yielded |-> yielded, raised |-> exc]

\* variant: what a step yields is held back until the rest of the loop has run
PrependHeldBack(yielded, rest) == [rest EXCEPT !.yielded = @ \o yielded]

\* a generator that yielded `yielded` and then went on as `rest`
Prepend(yielded, rest) == [rest EXCEPT !.yielded = yielded \o @]

\* new_text = aggregator.apply_patch(patch); if new_text: yield new_text
\* (r is what apply_patch did to the aggregator of intended_usage)
yield_new_text(self, intended_usage, r) ==
    Ran([self EXCEPT !.aggregators[intended_usage] =
             [chunks |-> r.chunks, is_complete |-> r.is_complete]],
        IF ~r.raised /\ Truthy(r.ret) THEN <<r.ret>> ELSE <<>>,
        r.raised)

RECURSIVE apply_patches(_, _, _)

\* the rest of the loop over the patches, after the first patch ran as `first`
next_patch(first, intended_usage, patches) ==
    IF first.raised THEN first
    ELSE Prepend(first.yielded, apply_patches(first.state, intended_usage, patches))

\* for patch in block.diff_block.patches: ...
apply_patches(self, intended_usage, patches) ==
    IF patches = <<>> THEN Ran(self, <<>>, FALSE)
    ELSE next_patch(yield_new_text(self, intended_usage,
                                   apply_patch(self.aggregators[intended_usage], Head(patches))),
                    intended_usage, Tail(patches))

\* variant: the aggregator is fetched before the patch-list is looked at
process_block_eager(self, block) ==
    apply_patches(
        [self EXCEPT !.aggregators =
            get_or_create_aggregator(self.aggregators, block.intended_usage)],
        block.intended_usage, block.diff_block.patches)

process_block(self, block) ==
    IF ~block.diff_block.present THEN Ran(self, <<>>, FALSE)
    ELSE apply_patches(
             [self EXCEPT !.aggregators =
                 get_or_create_aggregator(self.aggregators, block.intended_usage)],
             block.intended_usage, block.diff_block.patches)

RECURSIVE process_blocks(_, _)

\* the rest of the loop over the blocks, after the first block ran as `first`
next_block(first, blocks) ==
    IF first.raised THEN first
    ELSE Prepend(first.yielded, process_blocks(first.state, blocks))

\* for block in iter_markdown_blocks(event): yield from self._process_block(block)
process_blocks(self, blocks) ==
    IF blocks = <<>> THEN Ran(self, <<>>, FALSE)
    ELSE next_block(process_block(self, Head(blocks)), Tail(blocks))

\* ChunkExtractor.is_complete()
\* variant: only the aggregators are consulted
is_complete_derived_only(self) ==
    \A key \in DOMAIN self.aggregators : self.aggregators[key].is_complete

is_complete(self) == is_all_complete(self)

\* variant: a later display model overwrites the stored one
update_model_overwrite(model, display_model) ==
    IF display_model # <<>> THEN display_model ELSE model

\* if not self.state.model and event.display_model: self.state.model = event.display_model
update_model(model, display_model) ==
    IF model = <<>> /\ display_model # <<>> THEN display_model ELSE model

\* variant: the session's flag follows the flag of every event
set_text_completed_follows(text_completed, event_text_completed) == event_text_completed

\* if event.text_completed: self.state.text_completed = True
set_text_completed(text_completed, event_text_completed) ==
    IF event_text_completed THEN TRUE ELSE text_completed

\* process_event once the event is decoded
handle_event(self, event) ==
    LET completed == [self EXCEPT !.text_completed =
                         set_text_completed(@, event.text_completed)]
        named == [completed EXCEPT !.model = update_model(completed.model, event.display_model)]
    IN process_blocks(named, iter_markdown_blocks(event))

\* variant: an undecodable event is taken for the end of the answer
on_decode_failure_completes(self) == Ran([self EXCEPT !.text_completed = TRUE], <<>>, FALSE)

\* if not event: return
on_decode_failure(self) == Ran(self, <<>>, FALSE)

\* event = parse_event_data(event_data); if not event: return; ...
after_decode(self, parsed) ==
    IF ~parsed.ok THEN on_decode_failure(self) ELSE handle_event(self, parsed.event)

process_event(self, event_data) == after_decode(self, parse_event_data(event_data))

-----------------------------------------------------------------------------
(* The raw events fed to one extractor *)

RawPatch(op, path, value) == JDict([op |-> JStr(op), path |-> JStr(path), value |-> value])
DiffData(patches) ==
    JDict([field |-> JStr(<<"m", "a", "r", "k", "d", "o", "w", "n">>), patches |-> JList(patches)])
Block(tag, patches) == JDict([intended_usage |-> JStr(tag), diff_block |-> DiffData(patches)])
Event(blocks) == JDict([blocks |-> JList(blocks)])

T_1 == ASK_TEXT_PREFIX \o <<"1">> \o MARKDOWN_SUFFIX
T_10 == ASK_TEXT_PREFIX \o <<"1", "0">> \o MARKDOWN_SUFFIX
T_PLAN == <<"p", "l", "a", "n">>
M1 == <<"m", "1">>
M2 == <<"m", "2">>
MOVE == <<"m", "o", "v", "e">>

pAddHel == RawPatch(ADD, ChunkPath(0), JStr(HEL))
pAddLo == RawPatch(ADD, ChunkPath(1), JStr(LO))
pAddEmpty == RawPatch(ADD, ChunkPath(0), JStr(<<>>))
pAddNoValue == JDict([op |-> JStr(ADD), path |-> JStr(ChunkPath(0))])
pDone == RawPatch(REPLACE, PROGRESS_PATH, JStr(DONE))
pDoneNoOp == JDict([path |-> JStr(PROGRESS_PATH), value |-> JStr(DONE)])
pInit == RawPatch(REPLACE, ROOT_PATH, InitialChunks(JList(<<JStr(HEL)>>)))
pInitBad == RawPatch(REPLACE, ROOT_PATH, InitialChunks(JList(<<JInt(1)>>)))
pMove == RawPatch(MOVE, ChunkPath(0), JStr(HEL))
pRemove == RawPatch(REMOVE, ChunkPath(0), JNull)

\* events of one block with a patch-list
OneBlockEvents ==
    {Event(<<Block(ASK_TEXT_MARKDOWN, ps)>>) :
        ps \in {<<pAddHel>>, <<pAddHel, pAddLo>>, <<pAddLo, pDone>>, <<pDone>>, <<pAddEmpty>>,
                <<pAddNoValue>>, <<pInit>>, <<pInitBad>>, <<pAddHel, pInitBad, pAddLo>>,
                <<pAddHel, pMove, pAddLo>>, <<pMove>>, <<pDoneNoOp>>, <<pRemove>>, <<>>,
                <<JStr(HEL)>>}}
    \cup {Event(<<Block(T_1, ps)>>) : ps \in {<<pAddHel>>, <<pAddLo, pDone>>, <<>>}}
    \cup {Event(<<Block(T_10, ps)>>) : ps \in {<<pAddLo>>, <<pDone>>}}
    \cup {Event(<<Block(T_PLAN, <<pAddHel>>)>>)}

\* events of several blocks
ManyBlockEvents ==
    {Event(<<Block(T_1, <<pAddLo>>), Block(ASK_TEXT_MARKDOWN, <<pAddHel>>)>>),
     Event(<<Block(ASK_TEXT_MARKDOWN, <<pAddHel>>),
             JDict([no_intended_usage |-> JStr(LO)]),
             Block(ASK_TEXT_MARKDOWN, <<pAddLo>>)>>),
     Event(<<Block(ASK_TEXT_MARKDOWN, <<pInitBad>>), Block(T_1, <<pAddHel>>)>>),
     Event(<<JInt(7),
             Block(T_1, <<pAddLo>>),
             JDict([intended_usage |-> JStr(ASK_TEXT_MARKDOWN), diff_block |-> JNull]),
             Block(ASK_TEXT_MARKDOWN, <<pAddHel>>)>>),
     Event(<<Block(T_PLAN, <<pAddHel>>), Block(ASK_TEXT_MARKDOWN, <<pAddLo>>)>>),
     Event(<<Block(ASK_TEXT_MARKDOWN, <<pAddHel, pAddLo>>), Block(T_1, <<pAddHel>>)>>)}

\* events that carry metadata
MetadataEvents ==
    {JDict([display_model |-> JStr(M1)]),
     JDict([display_model |-> JStr(M2), text_completed |-> JBool(TRUE)]),
     JDict([display_model |-> JStr(<<>>)]),
     JDict([text_completed |-> JBool(TRUE)]),
     JDict([display_model |-> JStr(M1),
            blocks |-> JList(<<Block(ASK_TEXT_MARKDOWN, <<pAddHel>>)>>)]),
     JDict([display_model |-> JStr(M2), text_completed |-> JBool(FALSE),
            blocks |-> JList(<<Block(T_10, <<pDone>>)>>)])}

\* events of the wrong shape
MalformedEvents ==
    {JNull,
     JList(<<JInt(1)>>),
     JDict([display_model |-> JInt(5), text_completed |-> JBool(TRUE),
            blocks |-> JList(<<Block(ASK_TEXT_MARKDOWN, <<pAddHel>>)>>)]),
     JDict([display_model |-> JStr(M2), blocks |-> JNull]),
     JDict([display_model |-> JStr(M1), text_completed |-> JNull])}

\* events whose blocks have other shapes
BlockShapeEvents ==
    {Event(<<JDict([intended_usage |-> JStr(ASK_TEXT_MARKDOWN)])>>),
     Event(<<JDict([intended_usage |-> JStr(ASK_TEXT_MARKDOWN), diff_block |-> JNull])>>),
     Event(<<JDict([intended_usage |-> JStr(ASK_TEXT_MARKDOWN),
                    diff_block |-> DiffData(<<pAddHel>>),
                    markdown_block |-> JDict([progress |-> JStr(DONE),
                                              chunks |-> JList(<<JStr(HEL)>>)])])>>),
     Event(<<JDict([intended_usage |-> JStr(ASK_TEXT_MARKDOWN),
                    diff_block |-> DiffData(<<pAddHel>>),
                    markdown_block |-> JDict([progress |-> JStr(LO)])])>>),
     Event(<<JDict([intended_usage |-> JStr(ASK_TEXT_MARKDOWN),
                    diff_block |-> DiffData(<<pAddLo>>),
                    plan_block |-> JDict([steps |-> JList(<<JStr(LO)>>)])])>>),
     Event(<<JDict([intended_usage |-> JStr(ASK_TEXT_MARKDOWN),
                    diff_block |-> DiffData(<<pAddLo>>),
                    plan_block |-> JList(<<JStr(LO)>>)])>>),
     JDict([blocks |-> JStr(LO)])}

RawEvents ==
    OneBlockEvents \cup ManyBlockEvents \cup MetadataEvents \cup MalformedEvents
        \cup BlockShapeEvents

-----------------------------------------------------------------------------
(* Actions on the extractor *)

\* the caller has run the generator r to its end
Consumed(r) ==
    /\ state' = r.state
    /\ lastYield' = r.yielded
    /\ raised' = r.raised

\* one call of process_event, its generator run to the end
ProcessEvent ==
    /\ nEvents < MaxEvents
    /\ \E event_data \in RawEvents :
          /\ lastEvent' = event_data
          /\ Consumed(process_event(state, event_data))
    /\ prevState' = state
    /\ nEvents' = nEvents + 1
    /\ fullText' = JNull
    /\ UNCHANGED <<reqVars, aggVars, strVars, fmtVars>>

\* variant: reading the text leaves only the merged text behind, under the
\* tag of the combined answer
GetFullTextMerges ==
    /\ fullText' = JStr(get_all_text(state))
    /\ state' = [state EXCEPT !.aggregators =
                     (ASK_TEXT_MARKDOWN :> [chunks |-> <<get_all_text(state)>>,
                                            is_complete |-> is_all_complete(state)])]
    /\ UNCHANGED <<reqVars, lastEvent, lastYield, raised, prevState, nEvents, aggVars, strVars, fmtVars>>

\* one call of ChunkExtractor.get_full_text(): self.state.get_all_text(), which
\* calls get_full_text() of every aggregator
GetFullText ==
    /\ fullText' = JStr(get_all_text(state))
    /\ UNCHANGED <<reqVars, state, lastEvent, lastYield, raised, prevState, nEvents,
                   aggVars, strVars, fmtVars>>

-----------------------------------------------------------------------------
(* PerplexityAdapter.stream *)

\* one round of chunk_generator's outer loop:
\* for chunk in extractor.process_event(event_data): if chunk: yield chunk
yield_if_chunk(r) == Ran(r.state, SelectSeq(r.yielded, Truthy), r.raised)
chunk_generator(extractor, event_data) == yield_if_chunk(process_event(extractor, event_data))

\* the first next() on chunk_generator: a fresh ChunkExtractor, and ask_stream
\* posts the request; a status other than 200 raises
StreamStart ==
    /\ streamPc = "idle"
    /\ nEvents = 0
    /\ \E status_code \in {200, 503} :
          streamPc' = IF status_code # 200 THEN "failed" ELSE "streaming"
    /\ state' = NewStreamingState
    /\ UNCHANGED <<reqVars, lastEvent, lastYield, raised, prevState, nEvents, fullText, streamOut,
                   aggVars, fmtVars>>

\* the consumer of stream() has drawn every fragment of the round r
Streamed(r) ==
    /\ Consumed(r)
    /\ streamOut' = streamOut \o r.yielded
    /\ streamPc' = IF r.raised THEN "failed" ELSE "streaming"

\* ask_stream yields the next parsed event (only if it is truthy) and the
\* generator runs it through the extractor
StreamEvent ==
    /\ streamPc = "streaming"
    /\ nEvents < MaxEvents
    /\ \E event_data \in RawEvents :
          /\ Truthy(event_data)
          /\ lastEvent' = event_data
          /\ Streamed(chunk_generator(state, event_data))
    /\ prevState' = state
    /\ nEvents' = nEvents + 1
    /\ fullText' = JNull
    /\ UNCHANGED <<reqVars, aggVars, fmtVars>>

\* the upstream response body ends
StreamEnd ==
    /\ streamPc = "streaming"
    /\ streamPc' = "done"
    /\ UNCHANGED <<reqVars, extVars, streamOut, aggVars, fmtVars>>

-----------------------------------------------------------------------------
(* StreamFormatter *)

\* the fields a formatter gets at construction
COMPLETION_ID == "chatcmpl-0123456789abcdef01234567"
CREATED == 1700000000
MODEL == "m1"

PyNone == JNull

\* a ChatCompletionChunk with its one ChunkChoice and DeltaContent
format_openai_chunk(completion_id, created, model, content, role, finish_reason) ==
    [id |-> completion_id,
     object |-> "chat.completion.chunk",
     created |-> created,
     model |-> model,
     choices |-> <<[index |-> 0,
                    delta |-> [role |-> role, content |-> content],
                    finish_reason |-> finish_reason]>>]

\* f"data: {chunk.model_dump_json()}\n\n": one frame, kept as its three parts
format_sse_event(chunk) == <<[prefix |-> "data: ", json |-> chunk, end |-> "\n\n"]>>

\* "data: [DONE]\n\n"
DONE_MARKER == [text |-> "[DONE]"]
format_sse_done == <<[prefix |-> "data: ", json |-> DONE_MARKER, end |-> "\n\n"]>>

\* variant: the role frame is emitted on every call
format_role_chunk_always(sent) ==
    [has_sent_role |-> TRUE,
     frames |-> format_sse_event(
         format_openai_chunk(COMPLETION_ID, CREATED, MODEL, PyNone, JStr(<<"a", "s", "s", "i", "s", "t", "a", "n", "t">>), PyNone))]

\* each method gives the flag afterwards and the string returned, a sequence
\* of frames; the empty sequence is the empty string
format_role_chunk(sent) ==
    IF sent THEN [has_sent_role |-> sent, frames |-> <<>>]
    ELSE [has_sent_role |-> TRUE,
          frames |-> format_sse_event(
              format_openai_chunk(COMPLETION_ID, CREATED, MODEL, PyNone, JStr(<<"a", "s", "s", "i", "s", "t", "a", "n", "t">>), PyNone))]

\* variant: a content chunk requested before the role was sent carries the
\* role itself, in one frame
format_content_chunk_role_inline(sent, content) ==
    LET chunk == format_openai_chunk(COMPLETION_ID, CREATED, MODEL, JStr(content),
                     IF sent THEN PyNone
                     ELSE JStr(<<"a", "s", "s", "i", "s", "t", "a", "n", "t">>), PyNone)
    IN [has_sent_role |-> TRUE, frames |-> format_sse_event(chunk)]

format_content_chunk(sent, content) ==
    LET role == IF ~sent THEN format_role_chunk(sent)
                ELSE [has_sent_role |-> sent, frames |-> <<>>]
        chunk == format_openai_chunk(COMPLETION_ID, CREATED, MODEL, JStr(content), PyNone, PyNone)
    IN [has_sent_role |-> role.has_sent_role,
        frames |-> role.frames \o format_sse_event(chunk)]

format_final_chunk(sent) ==
    LET chunk == format_openai_chunk(COMPLETION_ID, CREATED, MODEL, PyNone, PyNone, JStr(<<"s", "t", "o", "p">>))
    IN [has_sent_role |-> sent, frames |-> format_sse_event(chunk) \o format_sse_done]

Contents == {<<>>, HEL, LO}

Called(name, r) ==
    /\ nCalls < MaxCalls
    /\ has_sent_role' = r.has_sent_role
    /\ output' = output \o r.frames
    /\ lastCall' = name
    /\ lastFrames' = r.frames
    /\ nCalls' = nCalls + 1
    /\ UNCHANGED <<reqVars, aggVars, extVars, strVars>>

FormatRoleChunk == Called("format_role_chunk", format_role_chunk(has_sent_role))

FormatContentChunk ==
    \E content \in Contents :
        Called("format_content_chunk", format_content_chunk(has_sent_role, content))

FormatFinalChunk == Called("format_final_chunk", format_final_chunk(has_sent_role))

-----------------------------------------------------------------------------
(* PerplexityAdapter.format_messages_as_query *)

MessageRole == [SYSTEM |-> "system", USER |-> "user", ASSISTANT |-> "assistant"]

ChatMessage(role, content) == [role |-> role, content |-> content]

RECURSIVE JoinWith(_, _)
\* sep.join(seq of str)
JoinWith(sep, ss) ==
    IF ss = <<>> THEN <<>>
    ELSE IF Len(ss) = 1 THEN ss[1]
    ELSE ss[1] \o sep \o JoinWith(sep, Tail(ss))

NEWLINE == <<"\n">>
BLANK_LINE == <<"\n", "\n">>

\* f"{role_prefix}: {msg.content}"
dialogue_line(msg) ==
    (IF msg.role = MessageRole.USER THEN <<"U", "s", "e", "r">>
     ELSE <<"A", "s", "s", "i", "s", "t", "a", "n", "t">>) \o <<":", " ">> \o msg.content

\* f"[Context: {system_message}]"
context_line(system_message) ==
    <<"[", "C", "o", "n", "t", "e", "x", "t", ":", " ">> \o system_message.s \o <<"]">>

RECURSIVE scan_messages_newest_first(_)
\* variant: each dialogue line is put in front of the lines collected so far
scan_messages_newest_first(msgs) ==
    IF msgs = <<>> THEN [system_message |-> PyNone, conversation |-> <<>>]
    ELSE LET before == scan_messages_newest_first(SubSeq(msgs, 1, Len(msgs) - 1))
             msg == msgs[Len(msgs)]
         IN IF msg.role = MessageRole.SYSTEM
            THEN [before EXCEPT !.system_message = JStr(msg.content)]
            ELSE [before EXCEPT !.conversation = <<dialogue_line(msg)>> \o @]

RECURSIVE scan_messages(_)
\* the loop over the messages: a system message replaces system_message, any
\* other message appends its line to conversation
scan_messages(msgs) ==
    IF msgs = <<>> THEN [system_message |-> PyNone, conversation |-> <<>>]
    ELSE LET before == scan_messages(SubSeq(msgs, 1, Len(msgs) - 1))
             msg == msgs[Len(msgs)]
         IN IF msg.role = MessageRole.SYSTEM
            THEN [before EXCEPT !.system_message = JStr(msg.content)]
            ELSE [before EXCEPT !.conversation = Append(@, dialogue_line(msg))]

\* parts, then "\n\n".join(parts) if parts else ""
join_parts(scanned) ==
    LET context == IF Truthy(scanned.system_message)
                   THEN <<context_line(scanned.system_message)>> ELSE <<>>
        dialogue == IF scanned.conversation # <<>>
                    THEN <<JoinWith(NEWLINE, scanned.conversation)>> ELSE <<>>
        parts == context \o dialogue
    IN IF parts # <<>> THEN JoinWith(BLANK_LINE, parts) ELSE <<>>

\* variant: a single user message is framed like any other conversation
format_messages_as_query_always_framed(msgs) == join_parts(scan_messages(msgs))

format_messages_as_query(msgs) ==
    IF Len(msgs) = 1 /\ msgs[1].role = MessageRole.USER
    THEN msgs[1].content
    ELSE join_parts(scan_messages(msgs))

Roles == {MessageRole.SYSTEM, MessageRole.USER, MessageRole.ASSISTANT}
Messages == {ChatMessage(role, content) : role \in Roles, content \in Contents}
MessageLists == UNION {[1..n -> Messages] : n \in 0..MaxMessages}

\* the call of format_messages_as_query(messages) returns
FormatMessagesAsQuery ==
    /\ query = PyNone
    /\ query' = JStr(format_messages_as_query(messages))
    /\ UNCHANGED <<messages, srvVars, pathVars, authVars, clientVars, sessVars,
                   aggVars, extVars, strVars, fmtVars>>

-----------------------------------------------------------------------------
(* Model aliases *)

\* a ModelConfig, with the defaults of the fields the registry leaves out
ModelConfig(perplexity_model) ==
    [perplexity_model |-> perplexity_model,
     search_focus |-> "internet",
     mode |-> "copilot",
     sources |-> <<"web", "scholar">>]

\* three entries of the registry
MODEL_REGISTRY ==
    [alias \in {"sonar", "pplx-alpha", "experimental"} |->
        CASE alias = "sonar" -> ModelConfig("experimental")
          [] alias = "pplx-alpha" -> ModelConfig("pplx_alpha")
          [] alias = "experimental" -> ModelConfig("experimental")]

DEFAULT_MODEL == "claude45sonnetthinking"

get_model_config(openai_model) ==
    IF openai_model \in DOMAIN MODEL_REGISTRY THEN MODEL_REGISTRY[openai_model]
    ELSE ModelConfig(DEFAULT_MODEL)

-----------------------------------------------------------------------------
(* PerplexityClient *)

\* the fields of the payload that the callers choose
build_payload(query_str, mode, model_preference, search_focus, sources, is_incognito) ==
    [query_str |-> query_str,
     mode |-> mode,
     model_preference |-> model_preference,
     search_focus |-> search_focus,
     sources |-> IF sources = <<>> THEN <<"web", "scholar">> ELSE sources,
     is_incognito |-> is_incognito]

\* what cffi_requests.post can come back with: no connection (it raises), or a
\* response with a status
CONNECT_FAILED == [connected |-> FALSE, status_code |-> 0]
Responses == {CONNECT_FAILED} \cup {[connected |-> TRUE, status_code |-> c] : c \in {200, 503}}

\* ask_stream up to its loop: whether it raised, and the response it holds
ask_stream_post(response) ==
    [raised |-> ~response.connected \/ response.status_code # 200,
     connection |-> IF response.connected THEN "open" ELSE "none"]

FINAL == <<"F", "I", "N", "A", "L">>

\* a str that holds the JSON text of v; any other str is not JSON text
Dumps(v) == [t |-> "str", s |-> <<"{", "}">>, loads |-> v]
\* json.loads(s) raises JSONDecodeError
NotJSON(s) == "loads" \notin DOMAIN s

RECURSIVE structured_text(_, _)
\* for item in step_content.get("structured_answer", []): the markdown items
\* with a text overwrite result.text
structured_text(text, items) ==
    IF items = <<>> THEN text
    ELSE LET item == Head(items)
         IN structured_text(
                IF Get(item, "type", PyNone) = JStr(<<"m", "a", "r", "k", "d", "o", "w", "n">>)
                      /\ Truthy(Get(item, "text", PyNone))
                THEN Get(item, "text", PyNone) ELSE text,
                Tail(items))

\* the answer of an inner FINAL step: the "answer" key of the JSON text, or the
\* str itself when it is not JSON text
answer_text(text, answer_str) ==
    IF ~Truthy(answer_str) THEN text
    ELSE IF NotJSON(answer_str) THEN answer_str
    ELSE IF "answer" \in DOMAIN answer_str.loads.f THEN answer_str.loads.f.answer
    ELSE text

\* one step of the FINAL event's text
ask_step(text, step) ==
    LET step_content == Get(step, "content", JDict(EmptyObject))
        answered == IF Get(step, "step_type", JStr(<<>>)) = JStr(FINAL)
                    THEN answer_text(text, Get(step_content, "answer", JStr(<<>>)))
                    ELSE text
    IN IF "structured_answer" \in DOMAIN step_content.f
       THEN structured_text(answered, step_content.f.structured_answer.items)
       ELSE answered

RECURSIVE ask_steps(_, _)
ask_steps(text, steps) ==
    IF steps = <<>> THEN text ELSE ask_steps(ask_step(text, Head(steps)), Tail(steps))

\* one round of ask's loop: result.text afterwards, and whether event.get raised
ask_event(result, event) ==
    IF event.t # "dict" THEN [result EXCEPT !.raised = TRUE]
    ELSE IF Get(event, "step_type", JStr(<<>>)) # JStr(FINAL) THEN result
    ELSE LET text_json == Get(event, "text", JStr(<<>>))
         IN IF ~Truthy(text_json) \/ NotJSON(text_json) THEN result
            ELSE [result EXCEPT !.text = ask_steps(result.text, text_json.loads.items)]

RECURSIVE ask(_, _)
\* ask's loop over the events ask_stream yields, from PerplexityResponse()
ask(result, events) ==
    IF events = <<>> \/ result.raised THEN result
    ELSE ask(ask_event(result, Head(events)), Tail(events))

PerplexityResponse == [text |-> JStr(<<>>), raised |-> FALSE]

-----------------------------------------------------------------------------
(* PerplexityAdapter.complete and PerplexityAdapter.stream *)

\* variant: the caller's alias is handed back
complete_returns_alias(msgs, model) ==
    LET config == get_model_config(model)
    IN [ask |-> build_payload(format_messages_as_query(msgs), config.mode,
                              config.perplexity_model, config.search_focus,
                              config.sources, TRUE),
        perplexity_model |-> model]

\* the arguments complete() calls client.ask with, and the model name it
\* returns beside response.text
complete(msgs, model) ==
    LET config == get_model_config(model)
    IN [ask |-> build_payload(format_messages_as_query(msgs), config.mode,
                              config.perplexity_model, config.search_focus,
                              config.sources, TRUE),
        perplexity_model |-> config.perplexity_model]

\* variant: the client's default for is_incognito is left in place
stream_default_incognito(msgs, model) ==
    LET config == get_model_config(model)
    IN [ask_stream |-> build_payload(format_messages_as_query(msgs), config.mode,
                                     config.perplexity_model, config.search_focus,
                                     config.sources, FALSE),
        perplexity_model |-> config.perplexity_model]

\* the arguments chunk_generator will call client.ask_stream with, and the
\* model name stream() returns beside the generator
stream(msgs, model) ==
    LET config == get_model_config(model)
    IN [ask_stream |-> build_payload(format_messages_as_query(msgs), config.mode,
                                     config.perplexity_model, config.search_focus,
                                     config.sources, TRUE),
        perplexity_model |-> config.perplexity_model]

-----------------------------------------------------------------------------
(* POST /v1/chat/completions and the MCP tool perplexity_ask *)

\* a ChatCompletionResponse
format_openai_response(content, model) ==
    [id |-> COMPLETION_ID,
     object |-> "chat.completion",
     created |-> CREATED,
     model |-> model,
     choices |-> <<[index |-> 0,
                    message |-> [role |-> "assistant", content |-> content],
                    finish_reason |-> "stop"]>>,
     usage |-> [prompt_tokens |-> 0, completion_tokens |-> 0, total_tokens |-> 0]]

\* the JSONResponse of general_exception_handler
INTERNAL_SERVER_ERROR ==
    [status_code |-> 500,
     media_type |-> "application/json",
     content |-> [error |-> [message |-> "Internal server error", type |-> "api_error"]]]

\* the frames of a formatter constructed as StreamFormatter(model=model)
with_model(frames, model) ==
    [i \in DOMAIN frames |->
        IF "choices" \in DOMAIN frames[i].json
        THEN [frames[i] EXCEPT !.json.model = model] ELSE frames[i]]

RECURSIVE content_frames_newest_first(_, _)
\* variant: each content frame is put in front of the frames made so far
content_frames_newest_first(sent, chunks) ==
    IF chunks = <<>> THEN [has_sent_role |-> sent, frames |-> <<>>]
    ELSE LET before == content_frames_newest_first(sent, SubSeq(chunks, 1, Len(chunks) - 1))
             text_chunk == chunks[Len(chunks)]
             next == format_content_chunk(before.has_sent_role, text_chunk.s)
         IN IF Truthy(text_chunk)
            THEN [has_sent_role |-> next.has_sent_role, frames |-> next.frames \o before.frames]
            ELSE before

RECURSIVE content_frames(_, _)
\* generate_sse's loop over the fragments chunk_generator yields:
\* if text_chunk: yield formatter.format_content_chunk(text_chunk)
content_frames(sent, chunks) ==
    IF chunks = <<>> THEN [has_sent_role |-> sent, frames |-> <<>>]
    ELSE LET before == content_frames(sent, SubSeq(chunks, 1, Len(chunks) - 1))
             text_chunk == chunks[Len(chunks)]
             next == format_content_chunk(before.has_sent_role, text_chunk.s)
         IN IF Truthy(text_chunk)
            THEN [has_sent_role |-> next.has_sent_role, frames |-> before.frames \o next.frames]
            ELSE before

\* the value of is_incognito when a caller of ask leaves it out
IS_INCOGNITO_DEFAULT == FALSE

\* nothing in ask_stream closes its response: when the generator is left
\* before the body is exhausted, the response stays open unless the runtime
\* happens to finalize it
Unreleased(c) == IF c = "open" THEN {"open", "closed"} ELSE {c}

\* request bodies: two registered aliases and an unknown one, with and
\* without a key that ChatCompletionRequest does not declare
Aliases == {"sonar", "experimental", "gpt-4"}
ChatCompletionRequests ==
    {[model |-> model, messages |-> msgs, stream |-> stream_, is_incognito |-> extra] :
        model \in Aliases,
        msgs \in {<<ChatMessage(MessageRole.USER, HEL)>>,
                  <<ChatMessage(MessageRole.SYSTEM, LO), ChatMessage(MessageRole.USER, HEL)>>},
        stream_ \in BOOLEAN,
        extra \in {PyNone, JBool(FALSE)}}

\* arguments of the tool perplexity_ask
ToolCalls ==
    {[query |-> HEL, mode |-> "copilot", model_preference |-> model_preference,
      search_focus |-> "internet"] :
        model_preference \in {"claude45sonnetthinking", "experimental"}}

\* events of an upstream body, for the streaming path
ServeEvents ==
    {Event(<<Block(ASK_TEXT_MARKDOWN, ps)>>) :
        ps \in {<<pAddHel>>, <<pAddHel, pAddLo>>, <<pAddLo, pDone>>, <<pAddEmpty>>, <<pInitBad>>}}
    \cup {Event(<<Block(T_1, <<pAddLo>>)>>),
          JDict([text_completed |-> JBool(TRUE)]),
          JList(<<JInt(1)>>)}

\* a FINAL event whose text is the JSON text of the given steps
FinalEvent(steps) == JDict([step_type |-> JStr(FINAL), text |-> Dumps(JList(steps))])
FinalStep(content) == JDict([step_type |-> JStr(FINAL), content |-> JDict(content)])

\* upstream bodies, for the path that reads the answer of the FINAL event
AskBodies ==
    {<<>>,
     <<Event(<<Block(ASK_TEXT_MARKDOWN, <<pAddHel>>)>>),
       FinalEvent(<<FinalStep([answer |-> Dumps(JDict([answer |-> JStr(HEL)]))])>>)>>,
     <<FinalEvent(<<FinalStep([answer |-> JStr(LO)])>>)>>,
     <<FinalEvent(<<FinalStep([answer |-> JStr(LO),
                               structured_answer |->
                                   JList(<<JDict([type |-> JStr(<<"m", "a", "r", "k", "d", "o", "w", "n">>),
                                                  text |-> JStr(HEL)])>>)])>>)>>,
     <<JDict([step_type |-> JStr(FINAL), text |-> JStr(HEL)])>>,
     <<JList(<<JInt(1)>>)>>}

\* the formatter returned r and generate_sse yielded it
Sent(r) ==
    /\ has_sent_role' = r.has_sent_role
    /\ output' = output \o with_model(r.frames, model_name.s)

\* handle_completion: complete() asks the client, which posts and reads the
\* body to its end; an exception on the way reaches general_exception_handler
Completed(req, call, post, result) ==
    LET failed == post.raised \/ result.raised \/ ~IsStr(result.text)
    IN /\ request' = req
       /\ posts' = Append(posts, [caller |-> "complete", payload |-> call.ask])
       /\ exit' = IF post.raised THEN "upstream_failure"
                  ELSE IF failed THEN "exception" ELSE "normal"
       /\ connection' \in IF failed THEN Unreleased(post.connection) ELSE {"closed"}
       /\ model_name' = IF failed THEN PyNone ELSE JStr(call.perplexity_model)
       /\ reply' = IF failed THEN INTERNAL_SERVER_ERROR
                   ELSE [status_code |-> 200,
                         media_type |-> "application/json",
                         content |-> format_openai_response(result.text, call.perplexity_model)]
       /\ pc' = "ended"
       /\ UNCHANGED <<farVars, aggVars, extVars, strVars, fmtVars>>

\* chat_completions with stream=false
HandleCompletion ==
    /\ pc = "idle"
    /\ \E req \in ChatCompletionRequests, response \in Responses, events \in AskBodies :
          /\ ~req.stream
          /\ Completed(req, complete(req.messages, req.model), ask_stream_post(response),
                       ask(PerplexityResponse, events))
    /\ UNCHANGED authVars

\* handle_streaming returned its StreamingResponse: the status line is sent,
\* generate_sse has not run yet
Started(req, call) ==
    /\ request' = req
    /\ model_name' = JStr(call.perplexity_model)
    /\ reply' = [status_code |-> 200, media_type |-> "text/event-stream", content |-> PyNone]
    /\ pc' = "started"
    /\ UNCHANGED <<exit, posts, connection, farVars, aggVars, extVars, strVars, fmtVars>>

\* chat_completions with stream=true
HandleStreaming ==
    /\ pc = "idle"
    /\ \E req \in ChatCompletionRequests :
          /\ req.stream
          /\ Started(req, stream(req.messages, req.model))
    /\ UNCHANGED authVars

\* generate_sse up to its first yield
SendRoleChunk ==
    /\ pc = "started"
    /\ Sent(format_role_chunk(has_sent_role))
    /\ pc' = "role_sent"
    /\ UNCHANGED <<request, exit, posts, connection, reply, model_name, lastCall, lastFrames,
                   nCalls, farVars, authVars, aggVars, extVars, strVars>>

\* chunk_generator has made its extractor and ask_stream has posted; an
\* exception leaves generate_sse after the response has begun
Posted(call, post) ==
    /\ posts' = Append(posts, [caller |-> "stream", payload |-> call.ask_stream])
    /\ state' = NewStreamingState
    /\ connection' \in IF post.raised THEN Unreleased(post.connection) ELSE {post.connection}
    /\ pc' = IF post.raised THEN "ended" ELSE "streaming"
    /\ exit' = IF post.raised THEN "upstream_failure" ELSE exit

\* generate_sse draws from chunk_generator for the first time
StartUpstream ==
    /\ pc = "role_sent"
    /\ \E response \in Responses :
          Posted(stream(request.messages, request.model), ask_stream_post(response))
    /\ UNCHANGED <<request, reply, model_name, lastEvent, lastYield, raised, prevState, nEvents,
                   fullText, farVars, authVars, aggVars, strVars, fmtVars>>

\* the round r of chunk_generator, with a content frame for each fragment; an
\* exception from the extractor leaves generate_sse
Served(r) ==
    /\ Consumed(r)
    /\ streamOut' = streamOut \o r.yielded
    /\ Sent(content_frames(has_sent_role, r.yielded))
    /\ pc' = IF r.raised THEN "ended" ELSE "streaming"
    /\ exit' = IF r.raised THEN "exception" ELSE exit
    /\ connection' \in IF r.raised THEN Unreleased(connection) ELSE {connection}

\* ask_stream yields the next event of the body
ServeEvent ==
    /\ pc = "streaming"
    /\ nEvents < MaxEvents
    /\ \E event_data \in ServeEvents :
          /\ Truthy(event_data)
          /\ lastEvent' = event_data
          /\ Served(chunk_generator(state, event_data))
    /\ prevState' = state
    /\ nEvents' = nEvents + 1
    /\ fullText' = JNull
    /\ UNCHANGED <<request, posts, reply, model_name, streamPc, lastCall, lastFrames, nCalls,
                   farVars, authVars, aggVars>>

\* the body ends: ask_stream and chunk_generator return, and generate_sse
\* yields the final chunk
ServeEnd ==
    /\ pc = "streaming"
    /\ Sent(format_final_chunk(has_sent_role))
    /\ pc' = "ended"
    /\ exit' = "normal"
    /\ connection' = "closed"
    /\ UNCHANGED <<request, posts, reply, model_name, lastCall, lastFrames, nCalls,
                   farVars, authVars, aggVars, extVars, strVars>>

\* the caller goes away before the response is exhausted: generate_sse is not
\* resumed again
Abort ==
    /\ pc \in {"started", "role_sent", "streaming"}
    /\ pc' = "ended"
    /\ exit' = "abort"
    /\ connection' \in Unreleased(connection)
    /\ UNCHANGED <<request, posts, reply, model_name, farVars, authVars, aggVars, extVars,
                   strVars, fmtVars>>

\* the tool returned, or client.ask raised out of it
Asked(args, payload, post, result) ==
    /\ request' = args
    /\ posts' = Append(posts, [caller |-> "perplexity_ask", payload |-> payload])
    /\ exit' = IF post.raised THEN "upstream_failure"
               ELSE IF result.raised THEN "exception" ELSE "normal"
    /\ connection' \in IF post.raised \/ result.raised THEN Unreleased(post.connection)
                       ELSE {"closed"}
    /\ reply' = [status_code |-> 0,
                 media_type |-> "tool",
                 content |-> IF post.raised \/ result.raised THEN PyNone
                             ELSE [text |-> result.text]]
    /\ pc' = "ended"
    /\ UNCHANGED <<model_name, farVars, authVars, aggVars, extVars, strVars, fmtVars>>

\* one call of the MCP tool perplexity_ask
PerplexityAsk ==
    /\ pc = "idle"
    /\ \E args \in ToolCalls, response \in Responses, events \in AskBodies :
          Asked(args,
                build_payload(args.query, args.mode, args.model_preference, args.search_focus,
                              <<>>, IS_INCOGNITO_DEFAULT),
                ask_stream_post(response),
                ask(PerplexityResponse, events))

-----------------------------------------------------------------------------
(* The REST routes and the API key *)

\* Config.api_key: os.getenv("API_KEY", "")
AUTH_DISABLED == <<>>
SECRET == <<"k", "e", "y">>
WRONG_KEY == <<"b", "a", "d">>

\* Config.auth_enabled
auth_enabled(config_api_key) == config_api_key # <<>>

HTTP_401_UNAUTHORIZED == 401

\* verify_api_key(api_key), api_key being the X-API-Key header or None: what
\* it returns, or the status of the HTTPException it raises.  No route and no
\* router of the source depends on it.
verify_api_key(config_api_key, x_api_key) ==
    IF ~auth_enabled(config_api_key)
    THEN [raised |-> FALSE, status_code |-> 0, ret |-> PyNone]
    ELSE IF ~Truthy(x_api_key)
    THEN [raised |-> TRUE, status_code |-> HTTP_401_UNAUTHORIZED, ret |-> PyNone]
    ELSE IF x_api_key.s # config_api_key
    THEN [raised |-> TRUE, status_code |-> HTTP_401_UNAUTHORIZED, ret |-> PyNone]
    ELSE [raised |-> FALSE, status_code |-> 0, ret |-> x_api_key]

\* request headers: X-API-Key absent, empty, wrong or right
Headers == {[x_api_key |-> k] : k \in {PyNone, JStr(<<>>), JStr(WRONG_KEY), JStr(SECRET)}}

\* POST /v1/chat/completions: the dependencies get_client and get_api_key
\* resolve (get_api_key returns the bearer token of the Authorization header
\* or None, it validates nothing and the handler does not use it), then
\* ChatCompletionService(client).handle_request(request)
ChatCompletions ==
    /\ pc = "idle"
    /\ \E h \in Headers, req \in ChatCompletionRequests, response \in Responses,
          events \in AskBodies :
          /\ headers' = h
          /\ IF req.stream
             THEN Started(req, stream(req.messages, req.model))
             ELSE Completed(req, complete(req.messages, req.model), ask_stream_post(response),
                            ask(PerplexityResponse, events))
    /\ UNCHANGED api_key

\* list_available_models()
list_available_models == DOMAIN MODEL_REGISTRY

\* GET /v1/models: the route has no dependency
ListModels ==
    /\ pc = "idle"
    /\ \E h \in Headers : headers' = h
    /\ request' = [path |-> "/v1/models"]
    /\ reply' = [status_code |-> 200,
                 media_type |-> "application/json",
                 content |-> [object |-> "list",
                              data |-> {[id |-> model_id, owned_by |-> "perplexity"] :
                                           model_id \in list_available_models}]]
    /\ pc' = "ended"
    /\ exit' = "normal"
    /\ UNCHANGED <<api_key, posts, connection, model_name, farVars, aggVars, extVars, strVars,
                   fmtVars>>

-----------------------------------------------------------------------------
(* The upstream client of one process (combined_server: REST and MCP) *)

\* the first uses: REST requests, whose dependency get_client runs on a worker
\* thread each, and MCP tool calls, which run one at a time on the event loop
RestCallers == {"rest1", "rest2"}
McpCallers == {"mcp1", "mcp2"}
Callers == RestCallers \cup McpCallers

\* get_perplexity_client: if _perplexity_client is None
RestCheck(c) ==
    /\ inFlight[c].pc = "idle"
    /\ inFlight' = [inFlight EXCEPT ![c].pc = IF _perplexity_client = 0 THEN "constructing"
                                               ELSE "returning"]
    /\ UNCHANGED <<_perplexity_client, _client, instances>>

\* get_perplexity_client: _perplexity_client = PerplexityClient()
RestConstruct(c) ==
    /\ inFlight[c].pc = "constructing"
    /\ instances' = instances + 1
    /\ _perplexity_client' = instances + 1
    /\ inFlight' = [inFlight EXCEPT ![c].pc = "returning"]
    /\ UNCHANGED _client

\* get_perplexity_client: return _perplexity_client
RestReturn(c) ==
    /\ inFlight[c].pc = "returning"
    /\ inFlight' = [inFlight EXCEPT ![c] = [pc |-> "done", client |-> _perplexity_client]]
    /\ UNCHANGED <<_perplexity_client, _client, instances>>

\* one REST request resolves Depends(get_client), a step at a time
RestGetClient ==
    /\ \E c \in RestCallers : RestCheck(c) \/ RestConstruct(c) \/ RestReturn(c)
    /\ UNCHANGED <<qryVars, srvVars, pathVars, authVars, sessVars, aggVars, extVars, strVars,
                   fmtVars>>

\* mcp_service.get_client, called by a tool: nothing else runs in between
McpGetClient ==
    /\ \E c \in McpCallers :
          /\ inFlight[c].pc = "idle"
          /\ instances' = IF _client = 0 THEN instances + 1 ELSE instances
          /\ _client' = IF _client = 0 THEN instances + 1 ELSE _client
          /\ inFlight' = [inFlight EXCEPT ![c] = [pc |-> "done", client |-> _client']]
    /\ UNCHANGED <<_perplexity_client, qryVars, srvVars, pathVars, authVars, sessVars, aggVars,
                   extVars, strVars, fmtVars>>

-----------------------------------------------------------------------------
(* Streaming requests in flight at the same time *)

StreamIds == {"a", "b"}
StreamAliases == {"sonar", "gpt-4"}
StreamEvents ==
    {Event(<<Block(ASK_TEXT_MARKDOWN, <<pAddHel>>)>>),
     Event(<<Block(ASK_TEXT_MARKDOWN, <<pAddLo, pDone>>)>>),
     JDict([display_model |-> JStr(M2)])}

\* a request that has not arrived: no formatter, no extractor
NoStream ==
    [pc |-> "idle", alias |-> "", model |-> "", has_sent_role |-> FALSE, state |-> PyNone,
     events |-> <<>>, fragments |-> <<>>]

\* the sessions the requests other than r hold
SessionsBut(r) == {streams[q].state : q \in StreamIds \ {r}} \ {PyNone}

\* variant: one extractor is kept for the process, and a request goes on with
\* the session another request has
ChunkExtractor_shared(others) ==
    IF others = {} THEN NewStreamingState ELSE CHOOSE session \in others : TRUE

\* extractor = ChunkExtractor(): self.state = state or StreamingState(), with
\* state None, whatever sessions the other requests hold
ChunkExtractor(others) == NewStreamingState

\* handle_streaming: adapter.stream() returns the iterator and the model name,
\* and the StreamingResponse is returned; generate_sse has not run
OpenStream ==
    /\ \E r \in StreamIds, alias \in StreamAliases :
          /\ streams[r].pc = "idle"
          /\ streams' = [streams EXCEPT ![r] =
                 [NoStream EXCEPT !.pc = "started",
                                  !.alias = alias,
                                  !.model = stream(<<ChatMessage(MessageRole.USER, HEL)>>,
                                                   alias).perplexity_model]]
    /\ UNCHANGED <<qryVars, srvVars, pathVars, authVars, clientVars, aggVars, extVars, strVars,
                   fmtVars>>

\* generate_sse up to its first yield: formatter = StreamFormatter(model=model_name),
\* whose has_sent_role is False, and the role chunk
StreamRole ==
    /\ \E r \in StreamIds :
          /\ streams[r].pc = "started"
          /\ streams' = [streams EXCEPT ![r].pc = "role_sent",
                                        ![r].has_sent_role = format_role_chunk(FALSE).has_sent_role]
    /\ UNCHANGED <<qryVars, srvVars, pathVars, authVars, clientVars, aggVars, extVars, strVars,
                   fmtVars>>

\* the round of chunk_generator for the next event of request r; the first
\* round makes the extractor
Drawn(r, event_data, round) ==
    streams' = [streams EXCEPT ![r].pc = IF round.raised THEN "ended" ELSE "streaming",
                               ![r].state = round.state,
                               ![r].events = Append(@, event_data),
                               ![r].fragments = @ \o round.yielded,
                               ![r].has_sent_role =
                                   IF round.yielded = <<>> THEN @
                                   ELSE format_content_chunk(@, round.yielded[1].s).has_sent_role]

\* generate_sse of one request draws the next fragment(s) from chunk_generator
StreamDraw ==
    /\ \E r \in StreamIds, event_data \in StreamEvents :
          /\ streams[r].pc \in {"role_sent", "streaming"}
          /\ Len(streams[r].events) < MaxEvents
          /\ Drawn(r, event_data,
                   chunk_generator(IF streams[r].pc = "role_sent"
                                   THEN ChunkExtractor(SessionsBut(r))
                                   ELSE streams[r].state,
                                   event_data))
    /\ UNCHANGED <<qryVars, srvVars, pathVars, authVars, clientVars, aggVars, extVars, strVars,
                   fmtVars>>

\* the body of one request ends: generate_sse yields the final chunk
StreamClose ==
    /\ \E r \in StreamIds :
          /\ streams[r].pc = "streaming"
          /\ streams' = [streams EXCEPT ![r].pc = "ended",
                                        ![r].has_sent_role =
                                            format_final_chunk(@).has_sent_role]
    /\ UNCHANGED <<qryVars, srvVars, pathVars, authVars, clientVars, aggVars, extVars, strVars,
                   fmtVars>>

-----------------------------------------------------------------------------
(* One upstream body, read by complete() and by stream() *)


\* an event that carries blocks and is the FINAL event as well
FinalBlocksEvent(blocks, steps) ==
    JDict([blocks |-> JList(blocks), step_type |-> JStr(FINAL), text |-> Dumps(JList(steps))])

\* the events of the bodies: answer text in block patches, in the answer of
\* the FINAL event, or in both
BodyEvents ==
    {Event(<<Block(ASK_TEXT_MARKDOWN, <<pAddHel>>)>>),
     Event(<<Block(ASK_TEXT_MARKDOWN, <<pAddLo, pDone>>)>>),
     FinalEvent(<<FinalStep([answer |-> Dumps(JDict([answer |-> JStr(HEL \o LO)]))])>>),
     FinalEvent(<<FinalStep([answer |-> JStr(LO)])>>),
     FinalBlocksEvent(<<Block(ASK_TEXT_MARKDOWN, <<pAddLo>>)>>,
                      <<FinalStep([answer |-> Dumps(JDict([answer |-> JStr(HEL \o LO)]))])>>)}

Bodies == UNION {[1..n -> BodyEvents] : n \in 0..MaxBody}

\* complete(): client.ask reads the whole body and returns its response
CompleteBody ==
    /\ askResult = PyNone
    /\ askResult' = ask(PerplexityResponse, body)
    /\ UNCHANGED <<body, qryVars, srvVars, authVars, clientVars, sessVars,
                   aggVars, extVars, strVars, fmtVars>>

\* stream(): chunk_generator draws the next event of the body from ask_stream
StreamBodyEvent ==
    /\ streamPc \in {"idle", "streaming"}
    /\ nEvents < Len(body)
    /\ lastEvent' = body[nEvents + 1]
    /\ Streamed(chunk_generator(state, body[nEvents + 1]))
    /\ prevState' = state
    /\ nEvents' = nEvents + 1
    /\ fullText' = JNull
    /\ UNCHANGED <<reqVars, aggVars, fmtVars>>

\* the body is exhausted: ask_stream and chunk_generator return
StreamBodyEnd ==
    /\ streamPc \in {"idle", "streaming"}
    /\ nEvents = Len(body)
    /\ streamPc' = "done"
    /\ UNCHANGED <<reqVars, extVars, streamOut, aggVars, fmtVars>>

-----------------------------------------------------------------------------
(* Specifications *)

\* every object as its constructor leaves it
Constructed ==
    /\ agg = NewAggregator
    /\ lastPatch = NoPatch
    /\ lastRet = PyNone
    /\ aggRaised = FALSE
    /\ returned = <<>>
    /\ expected = <<>>
    /\ onlyAdds = TRUE
    /\ nPatches = 0
    /\ aggText = PyNone
    /\ state = NewStreamingState
    /\ lastEvent = JNull
    /\ lastYield = <<>>
    /\ raised = FALSE
    /\ prevState = NewStreamingState
    /\ nEvents = 0
    /\ fullText = PyNone
    /\ streamPc = "idle"
    /\ streamOut = <<>>
    /\ has_sent_role = FALSE
    /\ output = <<>>
    /\ lastCall = "__init__"
    /\ lastFrames = <<>>
    /\ nCalls = 0

\* no call has arrived
Waiting ==
    /\ request = PyNone
    /\ pc = "idle"
    /\ exit = "none"
    /\ posts = <<>>
    /\ connection = "none"
    /\ reply = PyNone
    /\ model_name = PyNone
    /\ headers = PyNone

\* no upstream body is at hand
NoBody ==
    /\ body = <<>>
    /\ askResult = PyNone

\* the module globals as the import leaves them, and no call in flight
NoClient ==
    /\ _perplexity_client = 0
    /\ _client = 0
    /\ instances = 0
    /\ inFlight = [c \in Callers |-> [pc |-> "idle", client |-> 0]]

\* no streaming request has arrived
NoStreams == streams = [r \in StreamIds |-> NoStream]

Init ==
    /\ Constructed
    /\ Waiting
    /\ messages = <<>>
    /\ query = PyNone
    /\ api_key = AUTH_DISABLED
    /\ NoBody
    /\ NoClient
    /\ NoStreams

\* a message list is about to be handed to format_messages_as_query
InitQuery ==
    /\ Constructed
    /\ Waiting
    /\ messages \in MessageLists
    /\ query = PyNone
    /\ api_key = AUTH_DISABLED
    /\ NoBody
    /\ NoClient
    /\ NoStreams

\* one aggregator, patched directly
NextAgg == ApplyPatch \/ AggGetFullText
SpecAgg == Init /\ [][NextAgg]_vars

\* one extractor, fed raw events
Next == ProcessEvent \/ GetFullText
Spec == Init /\ [][Next]_vars

\* one adapter stream() call
NextStream == StreamStart \/ StreamEvent \/ StreamEnd
SpecStream == Init /\ [][NextStream]_vars

\* one streaming formatter
NextFmt == FormatRoleChunk \/ FormatContentChunk \/ FormatFinalChunk
SpecFmt == Init /\ [][NextFmt]_vars

\* the query formatter, applied to message lists
NextQuery == FormatMessagesAsQuery
SpecQuery == InitQuery /\ [][NextQuery]_vars

\* one upstream body through the non-streaming and the streaming path
InitBody ==
    /\ Constructed
    /\ Waiting
    /\ messages = <<>>
    /\ query = PyNone
    /\ api_key = AUTH_DISABLED
    /\ body \in Bodies
    /\ askResult = PyNone
    /\ NoClient
    /\ NoStreams
NextBody == CompleteBody \/ StreamBodyEvent \/ StreamBodyEnd
SpecBody == InitBody /\ [][NextBody]_vars

\* one REST request, with or without a configured API key
InitAuth ==
    /\ Constructed
    /\ Waiting
    /\ messages = <<>>
    /\ query = PyNone
    /\ api_key \in {AUTH_DISABLED, SECRET}
    /\ NoBody
    /\ NoClient
    /\ NoStreams
NextAuth == ChatCompletions \/ ListModels \/ SendRoleChunk \/ StartUpstream
SpecAuth == InitAuth /\ [][NextAuth]_vars

\* the first uses of the upstream client in one process
NextClient == RestGetClient \/ McpGetClient
SpecClient == Init /\ [][NextClient]_vars

\* streaming requests, interleaved in any way
NextSessions == OpenStream \/ StreamRole \/ StreamDraw \/ StreamClose
SpecSessions == Init /\ [][NextSessions]_vars

\* one inbound call, over REST or MCP
NextServe ==
    \/ HandleCompletion
    \/ HandleStreaming
    \/ SendRoleChunk
    \/ StartUpstream
    \/ ServeEvent
    \/ ServeEnd
    \/ Abort
    \/ PerplexityAsk
SpecServe == Init /\ [][NextServe]_vars

-----------------------------------------------------------------------------
(* Properties of the aggregator, checked under SpecAgg *)

\* C1: add patches with paths /chunks/<index> and str values v1..vn, applied
\* in that order to an empty aggregator, give get_full_text() = v1+...+vn,
\* whatever the indices are.
C1_OrderPreservation == onlyAdds => get_full_text(agg) = expected

\* "Hel" and then "lo" at index 0 have been applied
C1_Witness ==
    /\ onlyAdds
    /\ nPatches >= 2
    /\ lastPatch = Patch(ADD, ChunkPath(0), JStr(LO))
    /\ expected = HEL \o LO

\* C2: after any sequence of patches, get_full_text() equals the concatenation
\* of every fragment apply_patch has returned so far.
C2_TextIsWhatWasReturned == get_full_text(agg) = returned

\* C3: once the completion flag is true, no later patch makes it false.
C3_MonotonicCompletion == [][agg.is_complete => agg'.is_complete]_vars

\* a /progress patch with another value was applied to a complete aggregator
C3_Witness ==
    /\ agg.is_complete
    /\ lastPatch = Patch(REPLACE, PROGRESS_PATH, JStr(LO))

\* a replace at the root path whose value is an object that has a chunks
\* list or no chunks entry
RootSnapshot(patch) ==
    /\ patch.op = REPLACE
    /\ patch.path = ROOT_PATH
    /\ patch.value.t = "dict"
    /\ Get(patch.value, "chunks", JList(<<>>)).t = "list"

\* the elements of the chunks list of a root snapshot, stringified
SnapshotFragments(patch) ==
    LET items == Get(patch.value, "chunks", JList(<<>>)).items
    IN [i \in 1..Len(items) |-> PyStr(items[i])]

\* C18: a replace at the root path with an object value appends every
\* element of its chunks list, stringified and in order, after the fragments
\* already stored, and returns the concatenation of those fragments; with an
\* empty or missing list it appends nothing and returns nothing.
C18_RootSnapshot ==
    [][(nPatches' # nPatches /\ RootSnapshot(lastPatch')) =>
          /\ ~aggRaised'
          /\ agg'.chunks = agg.chunks \o SnapshotFragments(lastPatch')
          /\ lastRet' = IF SnapshotFragments(lastPatch') = <<>> THEN PyNone
                        ELSE JStr(Join(SnapshotFragments(lastPatch')))]_vars

\* a patch the aggregator has no rule for: a remove, or a replace that is
\* neither (/progress, "DONE") nor an object at the root path
NoRule(patch) ==
    \/ patch.op = REMOVE
    \/ /\ patch.op = REPLACE
       /\ ~(patch.path = PROGRESS_PATH /\ patch.value = JStr(DONE))
       /\ ~(patch.path = ROOT_PATH /\ patch.value.t = "dict")

\* C19: a remove, or a replace that is neither (/progress, "DONE") nor an
\* object at the root path, leaves the fragment list and the completion flag
\* as they were and returns nothing.
C19_NoRuleNoEffect ==
    [][(nPatches' # nPatches /\ NoRule(lastPatch')) =>
          /\ agg' = agg
          /\ lastRet' = PyNone
          /\ ~aggRaised']_vars

\* a remove of chunk 0 was applied to a complete aggregator that holds "Hel"
C19_Witness ==
    /\ lastPatch = Patch(REMOVE, ChunkPath(0), JNull)
    /\ agg = [chunks |-> <<HEL>>, is_complete |-> TRUE]

\* C40: an add patch appends and returns a fragment only when its path has the
\* form /chunks/<index>, and exactly when is_chunk_add says so; an add patch
\* with any other path returns nothing.
C40_AddOnlyAtChunkIndex ==
    lastPatch.op = ADD =>
        /\ lastRet # JNull => IsChunkIndexPath(lastPatch.path)
        /\ lastRet # JNull <=> is_chunk_add(lastPatch.op, lastPatch.path)

-----------------------------------------------------------------------------
(* Properties of the extractor, checked under Spec *)

\* the last event decoded
Decoded == parse_event_data(lastEvent).ok

\* the display model the last event carried, "" if it did not decode
LastDisplayModel == IF Decoded THEN Get(lastEvent, "display_model", JStr(<<>>)).s ELSE <<>>

\* C4: once the session's model name is non-empty no later event changes it,
\* and it is set by the first decoded event that carries a non-empty display
\* model.
C4_WriteOnceModel ==
    /\ prevState.model # <<>> => state.model = prevState.model
    /\ prevState.model = <<>> => state.model = LastDisplayModel

\* an event naming m2 was processed by a session already named m1
C4_Witness ==
    /\ prevState.model = M1
    /\ LastDisplayModel = M2
    /\ state.model = M1

\* the tags of the session's aggregators, in every ascending arrangement
AscendingTags ==
    {order \in [1..Cardinality(DOMAIN state.aggregators) -> DOMAIN state.aggregators] :
        \A i \in DOMAIN order : \A j \in DOMAIN order : i < j => StrLess(order[i], order[j])}

\* C7: the extractor's get_full_text() is the concatenation of the
\* aggregators' texts in ascending lexicographic order of usage tag, whatever
\* the order in which the tags first appeared.
C7_LexicographicMerge ==
    \E order \in AscendingTags :
        get_all_text(state) =
            Join([i \in DOMAIN order |-> get_full_text(state.aggregators[order[i]])])

\* section 10 arrived after sections 1 and the combined answer, which sort after it
C7_Witness ==
    /\ DOMAIN prevState.aggregators = {ASK_TEXT_MARKDOWN, T_1}
    /\ DOMAIN state.aggregators = {ASK_TEXT_MARKDOWN, T_1, T_10}
    /\ get_full_text(state.aggregators[T_10]) = LO
    /\ get_full_text(state.aggregators[T_1]) = HEL
    /\ get_full_text(state.aggregators[ASK_TEXT_MARKDOWN]) = HEL \o LO

\* C8: an event that fails to decode yields nothing and leaves the session
\* unchanged, so the events after it are processed as if it had not occurred.
C8_DecodeFailureIsNoOp ==
    ~Decoded => /\ state = prevState
                /\ lastYield = <<>>
                /\ ~raised

\* an undecodable event that carries a completion flag, a model and a block
\* reached a session that is neither complete nor empty
C8_Witness ==
    /\ ~Decoded
    /\ lastEvent.t = "dict"
    /\ Get(lastEvent, "text_completed", JBool(FALSE)) = JBool(TRUE)
    /\ ~prevState.text_completed
    /\ DOMAIN prevState.aggregators # {}

\* C9: whatever the shape of a raw event, the decoder, the aggregator and
\* process_event complete without raising.
C9_NeverRaises == ~raised

Ops == {ADD, REPLACE, REMOVE}

\* a raw patch whose op is given and is not one of add, replace, remove
UnknownOp(patch_data) ==
    /\ patch_data.t = "dict"
    /\ "op" \in DOMAIN patch_data.f
    /\ patch_data.f["op"].t = "str"
    /\ patch_data.f["op"].s \notin Ops

\* a raw block without the patches of unknown op
WithoutUnknownOps(block_data) ==
    IF /\ block_data.t = "dict"
       /\ "diff_block" \in DOMAIN block_data.f
       /\ block_data.f["diff_block"].t = "dict"
       /\ "patches" \in DOMAIN block_data.f["diff_block"].f
       /\ block_data.f["diff_block"].f["patches"].t = "list"
    THEN [block_data EXCEPT !.f["diff_block"].f["patches"].items =
              SelectSeq(@, LAMBDA patch_data : ~UnknownOp(patch_data))]
    ELSE block_data

\* a raw event without the patches of unknown op
Known(event_data) ==
    IF /\ event_data.t = "dict"
       /\ "blocks" \in DOMAIN event_data.f
       /\ event_data.f["blocks"].t = "list"
    THEN [event_data EXCEPT !.f["blocks"].items =
              [i \in DOMAIN @ |-> WithoutUnknownOps(@[i])]]
    ELSE event_data

\* C10: a patch of unknown op is ignored on its own: the event is processed
\* as if that patch were not in its block, the other patches being applied.
C10_UnknownOpIgnoredAlone ==
    LET r == process_event(prevState, Known(lastEvent))
    IN state = r.state /\ lastYield = r.yielded

\* the raw event carries a list of blocks
HasBlockList(event_data) ==
    /\ event_data.t = "dict"
    /\ "blocks" \in DOMAIN event_data.f
    /\ event_data.f["blocks"].t = "list"

RawBlocks(event_data) == IF HasBlockList(event_data) THEN event_data.f["blocks"].items ELSE <<>>

\* the raw event with another list of blocks
WithBlocks(event_data, blocks) == [event_data EXCEPT !.f["blocks"].items = blocks]

\* a raw block the decoder accepts
WellFormed(block_data) == parse_block(block_data).ok

\* the last call did what process_event does to the session before it on event_data
SameAsProcessing(event_data) ==
    LET r == process_event(prevState, event_data)
    IN state = r.state /\ lastYield = r.yielded /\ raised = r.raised

StripPayloads(block_data) ==
    IF block_data.t = "dict"
    THEN JDict([k \in DOMAIN block_data.f \ {"plan_block", "markdown_block"} |-> block_data.f[k]])
    ELSE block_data

\* C12: whatever the plan payload and the markdown-snapshot payload of a
\* block hold, the block is decoded and its patch-list applied as if the
\* payloads were not there.
C12_PayloadsCarriedThrough ==
    (Decoded /\ HasBlockList(lastEvent)) =>
        LET blocks == RawBlocks(lastEvent)
        IN /\ \A i \in 1..Len(blocks) : WellFormed(StripPayloads(blocks[i])) => WellFormed(blocks[i])
           /\ SameAsProcessing(WithBlocks(lastEvent, [i \in 1..Len(blocks) |-> StripPayloads(blocks[i])]))

\* the patches of the last event in their order of arrival: block by block,
\* and within a block patch by patch (none if the event did not decode)
Arrived ==
    LET parsed == parse_event_data(lastEvent)
        blocks == iter_markdown_blocks(parsed.event)
    IN IF ~parsed.ok THEN <<>>
       ELSE Join([b \in 1..Len(blocks) |-> blocks[b].diff_block.patches])

\* what applying each of the patches returns and stores
Outcomes(patches) == [i \in 1..Len(patches) |-> apply_patch(NewAggregator, patches[i])]

\* how many of the patches were run: all of them, or those up to the first
\* that raises
Run(outcomes) ==
    LET raising == {i \in 1..Len(outcomes) : outcomes[i].raised}
    IN IF raising = {} THEN Len(outcomes) ELSE CHOOSE i \in raising : \A j \in raising : i <= j

\* C13: the fragments an event yields are the non-empty fragments of its
\* patches in their order of arrival (event by event, block by block, patch by
\* patch): none is reordered, duplicated or held back for a later event.
C13_FragmentsInArrivalOrder ==
    LET outcomes == Outcomes(Arrived)
    IN lastYield = SelectSeq([i \in 1..Run(outcomes) |-> outcomes[i].ret], Truthy)

\* a later event brought two sections, the one that sorts last first, and
\* three fragments
C13_Witness ==
    /\ nEvents >= 2
    /\ DOMAIN prevState.aggregators # {}
    /\ lastEvent = Event(<<Block(ASK_TEXT_MARKDOWN, <<pAddHel, pAddLo>>), Block(T_1, <<pAddHel>>)>>)
    /\ lastYield = <<JStr(HEL), JStr(LO), JStr(HEL)>>

\* the usage tags of the last event's markdown answer blocks that carry a patch-list
PatchedTags ==
    LET parsed == parse_event_data(lastEvent)
        blocks == iter_markdown_blocks(parsed.event)
    IN IF ~parsed.ok THEN {}
       ELSE {blocks[b].intended_usage : b \in {i \in 1..Len(blocks) : blocks[i].diff_block.present}}

\* a raw block that decodes and is not a markdown answer block, or has no patch-list
Inert(block_data) ==
    LET parsed == parse_block(block_data)
    IN /\ parsed.ok
       /\ \/ ~is_markdown_block(parsed.block.intended_usage)
          \/ ~parsed.block.diff_block.present

\* C14: a block that is not a markdown answer block, or that carries no
\* patch-list, creates no aggregator, changes no aggregator and yields
\* nothing: the event is processed as if the block were not in it.
C14_OtherBlocksAreInert ==
    LET patched == PatchedTags
    IN /\ DOMAIN state.aggregators \ DOMAIN prevState.aggregators \subseteq patched
       /\ \A tag \in DOMAIN prevState.aggregators \ patched :
             /\ tag \in DOMAIN state.aggregators
             /\ state.aggregators[tag] = prevState.aggregators[tag]
       /\ patched = {} => lastYield = <<>>
       /\ (Decoded /\ HasBlockList(lastEvent)) =>
             SameAsProcessing(WithBlocks(lastEvent,
                 SelectSeq(RawBlocks(lastEvent), LAMBDA block_data : ~Inert(block_data))))

\* a markdown answer block without a patch-list reached a session whose
\* aggregator holds "Hel"
C14_Witness ==
    /\ DOMAIN prevState.aggregators # {}
    /\ Len(RawBlocks(lastEvent)) = 1
    /\ Inert(RawBlocks(lastEvent)[1])
    /\ "diff_block" \notin DOMAIN RawBlocks(lastEvent)[1].f
    /\ state = prevState
    /\ ~prevState.aggregators[ASK_TEXT_MARKDOWN].is_complete
    /\ prevState.aggregators[ASK_TEXT_MARKDOWN].chunks = <<HEL>>

\* the usage tag under which each arrived patch came
ArrivedTags ==
    LET parsed == parse_event_data(lastEvent)
        blocks == iter_markdown_blocks(parsed.event)
    IN IF ~parsed.ok THEN <<>>
       ELSE Join([b \in 1..Len(blocks) |->
                    [p \in 1..Len(blocks[b].diff_block.patches) |-> blocks[b].intended_usage]])

\* the fragments the patches run under a tag store, in their order of arrival
StoredUnder(tag, tags, outcomes) ==
    LET run == SelectSeq([i \in 1..Run(outcomes) |-> i], LAMBDA i : tags[i] = tag)
    IN Join([k \in 1..Len(run) |-> outcomes[run[k]].chunks])

\* the aggregator of a tag before the last event
Before(tag) ==
    IF tag \in DOMAIN prevState.aggregators THEN prevState.aggregators[tag] ELSE NewAggregator

\* C15: the blocks of one usage tag, within an event and across the events
\* of a session, feed one aggregator, which is never replaced or reset: its
\* fragments stay, followed by what the tag's patches store, and its
\* completion flag stays set.
C15_OneAggregatorPerTag ==
    LET tags == ArrivedTags
        outcomes == Outcomes(Arrived)
    IN /\ DOMAIN prevState.aggregators \subseteq DOMAIN state.aggregators
       /\ \A tag \in DOMAIN state.aggregators :
             /\ state.aggregators[tag].chunks =
                    Before(tag).chunks \o StoredUnder(tag, tags, outcomes)
             /\ Before(tag).is_complete => state.aggregators[tag].is_complete

\* two blocks of one event added to a complete aggregator of an earlier event
C15_Witness ==
    /\ ASK_TEXT_MARKDOWN \in DOMAIN prevState.aggregators
    /\ prevState.aggregators[ASK_TEXT_MARKDOWN] = [chunks |-> <<LO>>, is_complete |-> TRUE]
    /\ Len(RawBlocks(lastEvent)) = 3
    /\ state.aggregators[ASK_TEXT_MARKDOWN] = [chunks |-> <<LO, HEL, LO>>, is_complete |-> TRUE]

\* the last event decoded and carried the text-fully-completed flag
CarriedCompletion(event_data) ==
    /\ parse_event_data(event_data).ok
    /\ parse_event_data(event_data).event.text_completed

\* C16: an event that carries the text-fully-completed flag sets the
\* session's top-level flag, and once set the flag stays set through every
\* later event, whether its own flag is false or it fails to decode.
C16_TopLevelCompletionSticks ==
    [][/\ state.text_completed => state'.text_completed
       /\ (nEvents' # nEvents /\ CarriedCompletion(lastEvent')) => state'.text_completed]_vars

\* a completed session took a decodable event whose flag is false
C16_Witness ==
    /\ state.text_completed
    /\ prevState.text_completed
    /\ Decoded
    /\ Get(lastEvent, "text_completed", JNull) = JBool(FALSE)

\* C17: at every point of a session is_complete() is true exactly when the
\* top-level flag is set or no aggregator is incomplete; it is true of a
\* session without aggregators.
C17_IsComplete ==
    /\ is_complete(state) <=>
          (\/ state.text_completed
           \/ ~\E tag \in DOMAIN state.aggregators : ~state.aggregators[tag].is_complete)
    /\ DOMAIN state.aggregators = {} => is_complete(state)

\* a session without aggregators and without the flag, complete, got an
\* aggregator that is not complete
C17_Witness ==
    /\ nEvents >= 2
    /\ DOMAIN prevState.aggregators = {}
    /\ ~prevState.text_completed
    /\ is_complete(prevState)
    /\ DOMAIN state.aggregators # {}
    /\ ~is_complete(state)

\* the step is a get_full_text() call on the aggregator
AggQueried == aggText' # PyNone /\ nPatches' = nPatches

\* the step is a get_full_text() call on the extractor
Queried == fullText' # PyNone /\ nEvents' = nEvents

\* C20: get_full_text() on an aggregator and on the extractor is a pure
\* query: it leaves fragments, completion flags and the aggregator map as they
\* were, and a call that follows another without a patch or an event in
\* between returns the same string.
C20_GetFullTextIsPure ==
    [][/\ Queried =>
            /\ state' = state
            /\ fullText # PyNone => fullText' = fullText
       /\ AggQueried =>
            /\ agg' = agg
            /\ aggText # PyNone => aggText' = aggText]_vars

\* the text of two sections and a completion flag was read, and the session
\* is as the last event left it
C20_Witness ==
    /\ fullText = JStr(HEL \o LO)
    /\ DOMAIN state.aggregators = {ASK_TEXT_MARKDOWN, T_1}
    /\ state.text_completed
    /\ state = process_event(prevState, lastEvent).state

\* C36 as stated: once is_complete() is true it is true after every later
\* event.
C36_CompletionNeverReverts ==
    is_complete(prevState) => is_complete(state)

\* C36: is_complete() stays true through an event when the top-level flag was
\* set before it, or when the event brings no new aggregator; it reverts only
\* when completion was derived from the aggregators and a new one appears.
C36_CompletionRevertsOnlyOnNewAggregator ==
    (/\ is_complete(prevState)
     /\ \/ prevState.text_completed
        \/ DOMAIN state.aggregators = DOMAIN prevState.aggregators)
        => is_complete(state)

\* a session whose flag was set got a new aggregator that is not complete,
\* and is still complete
C36_Witness ==
    /\ prevState.text_completed
    /\ is_complete(prevState)
    /\ DOMAIN state.aggregators # DOMAIN prevState.aggregators
    /\ \E tag \in DOMAIN state.aggregators : ~state.aggregators[tag].is_complete
    /\ is_complete(state)

\* C37: an aggregator whose completion flag was set before an event has the
\* same text after it: no later patch adds to a completed aggregator.
C37_CompletedTextIsFinal ==
    \A tag \in DOMAIN prevState.aggregators :
        prevState.aggregators[tag].is_complete
            => get_full_text(state.aggregators[tag]) = get_full_text(prevState.aggregators[tag])

-----------------------------------------------------------------------------
(* Properties of the adapter's stream, checked under SpecStream *)

\* C5: the fragments stream() produces never include "" or None.
C5_NoEmptyFragments ==
    \A i \in DOMAIN streamOut : streamOut[i].t = "str" /\ streamOut[i].s # <<>>

\* an add of "" went through a stream that has produced fragments
C5_Witness ==
    /\ streamOut # <<>>
    /\ lastEvent = Event(<<Block(ASK_TEXT_MARKDOWN, <<pAddEmpty>>)>>)
    /\ Len(state.aggregators[ASK_TEXT_MARKDOWN].chunks) > Len(streamOut)

\* the text a consumer of stream() has received so far
Received == Join([i \in DOMAIN streamOut |-> streamOut[i].s])

\* C34: after any sequence of events, the concatenation of the fragments yielded
\* so far equals the extractor's get_full_text(), the events having been
\* processed without an exception.
C34_ReceivedIsFullText ==
    streamPc \in {"streaming", "done"} => Received = get_all_text(state)

-----------------------------------------------------------------------------
(* Properties of the formatter, checked under SpecFmt *)

ASSISTANT == JStr(<<"a", "s", "s", "i", "s", "t", "a", "n", "t">>)

\* the positions of the frames that carry role="assistant"
RoleFrames(frames) ==
    {i \in DOMAIN frames :
        /\ "choices" \in DOMAIN frames[i].json
        /\ frames[i].json.choices[1].delta.role = ASSISTANT}

\* the output before the last call
OutputBefore == SubSeq(output, 1, Len(output) - Len(lastFrames))

\* C6: at most one emitted frame carries role="assistant", and a
\* format_role_chunk call made after the role was sent returns "".
C6_RoleOnce ==
    /\ Cardinality(RoleFrames(output)) <= 1
    /\ (lastCall = "format_role_chunk" /\ RoleFrames(OutputBefore) # {}) => lastFrames = <<>>

\* format_role_chunk was called after a content chunk had sent the role
C6_Witness ==
    /\ lastCall = "format_role_chunk"
    /\ lastFrames = <<>>
    /\ Cardinality(RoleFrames(output)) = 1
    /\ Len(output) >= 2

\* the positions of the frames that carry content
ContentFrames(frames) ==
    {i \in DOMAIN frames :
        /\ "choices" \in DOMAIN frames[i].json
        /\ frames[i].json.choices[1].delta.content # PyNone}

\* C27: in the output of one formatter a role frame precedes the first
\* content frame; a content chunk requested before the role was sent returns
\* the role frame followed by the content frame; and no content frame carries
\* the role.
C27_RoleBeforeContent ==
    /\ \A i \in ContentFrames(output) :
          /\ \E j \in RoleFrames(output) : j < i
          /\ output[i].json.choices[1].delta.role = PyNone
    /\ (lastCall = "format_content_chunk" /\ RoleFrames(OutputBefore) = {})
          => /\ Len(lastFrames) = 2
             /\ RoleFrames(lastFrames) = {1}
             /\ ContentFrames(lastFrames) = {2}

\* the first call on the formatter asked for the content chunk "Hel"
C27_Witness ==
    /\ nCalls = 1
    /\ lastCall = "format_content_chunk"
    /\ Len(output) = 2
    /\ output[2].json.choices[1].delta.content = JStr(HEL)

-----------------------------------------------------------------------------
(* Properties of the query formatter, checked under SpecQuery *)

\* the positions of the messages with the given role
WithRole(role) == {i \in DOMAIN messages : messages[i].role = role}

\* the dialogue block the non-system messages of the list make: one line each,
\* in the order of the list, with one newline between two lines
DialogueBlock ==
    LET spoken == SelectSeq(messages, LAMBDA msg : msg.role # MessageRole.SYSTEM)
        line(msg) == (IF msg.role = MessageRole.USER THEN <<"U", "s", "e", "r">>
                      ELSE <<"A", "s", "s", "i", "s", "t", "a", "n", "t">>)
                     \o <<":", " ">> \o msg.content
    IN JoinWith(<<"\n">>, [i \in DOMAIN spoken |-> line(spoken[i])])

ContextLineOf(i) ==
    <<"[", "C", "o", "n", "t", "e", "x", "t", ":", " ">> \o messages[i].content \o <<"]">>

\* the context line of message i, a blank line and the dialogue block, or the
\* context line alone when no message is spoken
Framed(i) ==
    IF WithRole(MessageRole.SYSTEM) = DOMAIN messages THEN ContextLineOf(i)
    ELSE ContextLineOf(i) \o <<"\n", "\n">> \o DialogueBlock

\* C21 as stated: a list with exactly one user message and no system message
\* gives that user message's content verbatim.
C21_OneUserMessageVerbatim ==
    (query # PyNone /\ Cardinality(WithRole(MessageRole.USER)) = 1 /\ WithRole(MessageRole.SYSTEM) = {})
        => \A i \in WithRole(MessageRole.USER) : query = JStr(messages[i].content)

\* C21: a list that is exactly one message, a user message, gives that
\* message's content verbatim, with no role prefix and no context line.
C21_SingleUserMessageVerbatim ==
    (query # PyNone /\ Len(messages) = 1 /\ messages[1].role = MessageRole.USER)
        => query = JStr(messages[1].content)

\* the list [user "Hel"] came back as "Hel"
C21_Witness ==
    /\ messages = <<ChatMessage(MessageRole.USER, HEL)>>
    /\ query = JStr(<<"H", "e", "l">>)

\* C22: when the list holds a system message, the query begins with the line
\* "[Context: <system content>]", one blank line separates it from the
\* dialogue block if there is one, and the dialogue block holds the
\* non-system messages only.
C22_ContextLineFirst ==
    (query # PyNone /\ WithRole(MessageRole.SYSTEM) # {})
        => \E i \in WithRole(MessageRole.SYSTEM) : query = JStr(Framed(i))

\* C23: outside the fast path the query is the dialogue block, alone or after
\* a context line and a blank line: one "User: <content>" or
\* "Assistant: <content>" line per non-system message, in the order of the
\* list, joined by single newlines; the empty list gives "".
C23_DialogueLines ==
    query # PyNone =>
        /\ messages = <<>> => query = JStr(<<>>)
        /\ ~(Len(messages) = 1 /\ messages[1].role = MessageRole.USER)
              => \/ query = JStr(DialogueBlock)
                 \/ \E i \in WithRole(MessageRole.SYSTEM) : query = JStr(Framed(i))

\* user "Hel", assistant "lo", user "Hel" came back as three lines
C23_Witness ==
    /\ messages = <<ChatMessage(MessageRole.USER, HEL),
                    ChatMessage(MessageRole.ASSISTANT, LO),
                    ChatMessage(MessageRole.USER, HEL)>>
    /\ query = JStr(<<"U", "s", "e", "r", ":", " ", "H", "e", "l", "\n",
                      "A", "s", "s", "i", "s", "t", "a", "n", "t", ":", " ", "l", "o", "\n",
                      "U", "s", "e", "r", ":", " ", "H", "e", "l">>)

\* C39: the content of every message of the list, system messages included
\* wherever they stand, occurs in the query.
C39_NoMessageDropped ==
    query # PyNone => \A i \in DOMAIN messages : Contains(query.s, messages[i].content)

-----------------------------------------------------------------------------
(* Properties of one inbound call, checked under SpecServe *)

\* the upstream requests posted for the given callers
PostsOf(callers) == {i \in DOMAIN posts : posts[i].caller \in callers}

\* the call is a streaming chat completion
IsStreaming == "stream" \in DOMAIN request /\ request.stream

\* C24: every upstream request that complete() or stream() issues, whatever
\* the messages, the alias and the other keys of the request body, carries
\* is_incognito = true.
C24_AlwaysIncognito ==
    \A i \in PostsOf({"complete", "stream"}) : posts[i].payload.is_incognito = TRUE

\* a streaming request whose body said is_incognito=false has posted upstream
C24_Witness ==
    /\ IsStreaming
    /\ request.is_incognito = JBool(FALSE)
    /\ PostsOf({"stream"}) = {1}
    /\ posts[1].payload.is_incognito = TRUE

\* C25: every upstream request made for an MCP tool call carries
\* is_incognito = true.
C25_ToolCallsIncognito ==
    \A i \in PostsOf({"perplexity_ask"}) : posts[i].payload.is_incognito = TRUE

Delta(i) == output[i].json.choices[1].delta
Finish(i) == output[i].json.choices[1].finish_reason

\* C28: when the upstream body of a streaming request ends normally, the
\* response body is one role frame, then one content frame for each fragment
\* stream() produced, none of them empty and in that order, then one frame
\* with finish_reason "stop", then the [DONE] marker, and nothing else.
C28_StreamBody ==
    (IsStreaming /\ exit = "normal") =>
        LET n == Len(streamOut)
        IN /\ Len(output) = n + 3
           /\ Delta(1) = [role |-> ASSISTANT, content |-> PyNone]
           /\ Finish(1) = PyNone
           /\ \A i \in 1..n :
                 /\ Delta(i + 1) = [role |-> PyNone, content |-> streamOut[i]]
                 /\ Finish(i + 1) = PyNone
                 /\ streamOut[i] # JStr(<<>>)
           /\ Delta(n + 2) = [role |-> PyNone, content |-> PyNone]
           /\ Finish(n + 2) = JStr(<<"s", "t", "o", "p">>)
           /\ output[n + 3].json = DONE_MARKER

\* a stream of three fragments, "Hel", "lo" and "lo", ended normally
C28_Witness ==
    /\ IsStreaming
    /\ exit = "normal"
    /\ streamOut = <<JStr(HEL), JStr(LO), JStr(LO)>>
    /\ Len(output) = 6

\* C29: when the upstream call fails, by a status other than 2xx or by a
\* connection failure, the caller of POST /v1/chat/completions gets a 5xx
\* status with the structured error body, with stream=false and with
\* stream=true.
C29_UpstreamFailureIs5xx ==
    (exit = "upstream_failure" /\ PostsOf({"complete", "stream"}) # {}) =>
        /\ reply.status_code \in 500..599
        /\ "error" \in DOMAIN reply.content

\* C30: once a call has ended, by the normal end of the body, an upstream
\* error or the caller's abort, no upstream connection is left open.
C30_NoConnectionLeftOpen ==
    pc = "ended" => connection # "open"

\* the response body ends with the finish frame and then the [DONE] marker
EndsWithDone ==
    /\ Len(output) >= 2
    /\ output[Len(output)].json = DONE_MARKER
    /\ "choices" \in DOMAIN output[Len(output) - 1].json
    /\ Finish(Len(output) - 1) = JStr(<<"s", "t", "o", "p">>)

\* C38: a streaming response that has emitted frames and has ended, other than
\* by the caller going away, has the finish frame and the [DONE] marker as its
\* last output, also when the upstream raised part-way through.
C38_EndsWithDone ==
    (IsStreaming /\ pc = "ended" /\ exit # "abort" /\ output # <<>>) => EndsWithDone

-----------------------------------------------------------------------------
(* Properties of the two paths over one body, checked under SpecBody *)

\* C35: for the same upstream event stream, the answer text the non-streaming
\* path returns equals the concatenation of the fragments the streaming path
\* delivers.
C35_SameAnswerOnBothPaths ==
    (askResult # PyNone /\ streamPc = "done" /\ ~askResult.raised /\ IsStr(askResult.text))
        => askResult.text.s = Received

-----------------------------------------------------------------------------
(* Properties of the REST routes, checked under SpecAuth *)

\* the request lacks the X-API-Key header or presents a key other than the
\* configured one
LacksKey == headers.x_api_key = PyNone \/ headers.x_api_key.s # api_key

\* C33: with an API key configured, a request to POST /v1/chat/completions or
\* GET /v1/models that lacks X-API-Key or presents a wrong key gets 401 and
\* posts nothing upstream; with no key configured no request gets 401.
C33_SharedSecretGuardsRoutes ==
    request # PyNone =>
        IF auth_enabled(api_key)
        THEN LacksKey => (reply.status_code = 401 /\ posts = <<>>)
        ELSE reply.status_code # 401

-----------------------------------------------------------------------------
(* Properties of the upstream client, checked under SpecClient *)

\* C31: under any interleaving of concurrent first uses, PerplexityClient is
\* constructed at most once in the process, and all requests, REST and MCP,
\* work with that one instance.
C31_OneClientPerProcess ==
    /\ instances <= 1
    /\ \A c, d \in Callers :
          (inFlight[c].pc = "done" /\ inFlight[d].pc = "done")
              => inFlight[c].client = inFlight[d].client

-----------------------------------------------------------------------------
(* Properties of concurrent streaming requests, checked under SpecSessions *)

RECURSIVE RunAlone(_, _)
\* the rounds of chunk_generator over the events of one request and nothing
\* else, the fragments accumulated
RunAlone(round, events) ==
    IF events = <<>> THEN round
    ELSE LET next == chunk_generator(round.state, Head(events))
         IN RunAlone(Ran(next.state, round.yielded \o next.yielded, next.raised), Tail(events))

\* the request r holds what its own events make of a fresh session and a fresh
\* formatter
OwnSession(own) ==
    /\ own.pc \in {"idle", "started"} => (~own.has_sent_role /\ own.state = PyNone)
    /\ own.pc = "role_sent" => (own.has_sent_role /\ own.state = PyNone)
    /\ own.pc \in {"idle", "started", "role_sent"} => own.fragments = <<>>
    /\ own.pc # "idle" => own.model = get_model_config(own.alias).perplexity_model
    /\ own.pc \in {"streaming", "ended"} =>
          LET alone == RunAlone(Ran(NewStreamingState, <<>>, FALSE), own.events)
          IN /\ own.state = alone.state
             /\ own.fragments = alone.yielded
             /\ own.has_sent_role

\* C32: under any interleaving of streaming requests, the fragments, the
\* model name, the completion flags and the role-sent flag of each request
\* are those its own events produce from a fresh session and formatter:
\* no other request, concurrent or earlier, has a part in them.
C32_RequestLocalSessions == \A r \in StreamIds : OwnSession(streams[r])

\* request a is half-way through "Hel", "lo", while request b, for another
\* alias, has ended after a model event and "Hel"
C32_Witness ==
    /\ streams["a"].pc = "streaming"
    /\ streams["a"].alias = "sonar"
    /\ streams["a"].fragments = <<JStr(HEL), JStr(LO)>>
    /\ streams["a"].state.aggregators[ASK_TEXT_MARKDOWN].is_complete
    /\ streams["b"].pc = "ended"
    /\ streams["b"].alias = "gpt-4"
    /\ streams["b"].state.model = M2
    /\ streams["b"].fragments = <<JStr(HEL)>>
    /\ ~streams["b"].state.aggregators[ASK_TEXT_MARKDOWN].is_complete

====
